---- MODULE Spec2Model ----
(***************************************************************************)
(* Model of iti (crates/iti/src).                                          *)
(*                                                                         *)
(* Spec:   the pane-selection subsystem (components/pane.rs): the static   *)
(*         container Panes in its two modes (Replace, Retain) and the      *)
(*         factory container RestartPanes, with the part of the DOM they   *)
(*         act on (parent links, inline styles, scroll offsets).           *)
(* SpecUI: the item containers List, TabList, ButtonGroup and Dropdown     *)
(*         with their step() protocol (buffered clicks, call, resolution,  *)
(*         drop), and the gallery Library with main(), its step loop and   *)
(*         localStorage (library.rs, storage.rs).                          *)
(* SpecWidget: the widgets built on one reactive cell (ListItem, Badge,    *)
(*         Progress, Toast, Modal), the stream container Widget and the    *)
(*         gallery item PaneRetainLibraryItem with its timer.              *)
(* SpecGallery: the gallery items ListLibraryItem, ButtonGroupLibraryItem  *)
(*         and ButtonLibraryItem with their step() handlers.               *)
(*                                                                         *)
(* Indices are 0-based as in the source; Option<T> is a sequence of        *)
(* length 0 (None) or 1 (Some).                                            *)
(***************************************************************************)
EXTENDS Integers, Sequences, FiniteSets, TLC

\* ------------------------------------------------------------------ bounds
\* Largest number of panes / factories added to one container.
MaxPanes == 3
\* Largest number of factory invocations in one behaviour.
MaxBuilt == 4
\* Largest amount of state one pane instance accumulates.
MaxState == 2

\* Scroll offsets a user gives a pane (0 is the offset of a fresh layout box).
ScrollOffsets == {0, 150}
\* Arguments of select: every valid index and at least one invalid one.
SelectArgs == 0 .. MaxPanes

\* ------------------------------------------------------------------ Option
None == << >>
Some(x) == << x >>

\* Vec::get
Get(vec, i) == IF i < Len(vec) THEN Some(vec[i + 1]) ELSE None

\* ------------------------------------------------------------------ DOM
Wrapper == << "wrapper", 0 >>
DefaultPaneNode == << "default_pane", 0 >>
DefaultSlotNode == << "default_slot", 0 >>
Placeholder == << "placeholder", 0 >>
PaneNode(k) == << "pane", k >>
SlotNode(k) == << "slot", k >>
\* DOM node of the instance built by the g-th factory invocation; 0 is the
\* default pane handed to RestartPanes::new.
InstanceNode(g) == << "instance", g >>

PaneNodes == { PaneNode(k) : k \in 1 .. MaxPanes }
SlotNodes == { SlotNode(k) : k \in 1 .. MaxPanes }
InstanceNodes == { InstanceNode(g) : g \in 0 .. MaxBuilt }
Nodes ==
  {Wrapper, DefaultPaneNode, DefaultSlotNode, Placeholder}
    \cup PaneNodes \cup SlotNodes \cup InstanceNodes

StyleProps == {"display", "flex", "min-height", "flex-direction"}
NoStyle == [p \in StyleProps |-> ""]

VARIABLES
  container,     \* which container type the program constructed
  mode,          \* Panes.mode
  index,         \* Panes.index
  child,         \* Panes.child: the node the ProxyChild stands for
  slots,         \* Panes.slots
  default_slot,  \* Panes.default_slot
  default_pane,  \* Panes.default_pane
  panes,         \* Panes.panes
  r_index,       \* RestartPanes.index
  r_child,       \* RestartPanes.child
  r_pane,        \* RestartPanes.pane: the current instance
  r_panes,       \* RestartPanes.panes: the factories
  parent,        \* DOM: parent link of every node
  style,         \* DOM: inline style of every node
  scroll,        \* DOM: scroll offset of every node
  built,         \* number of factory invocations so far
  calls,         \* number of invocations of each factory
  panicked,      \* the program has panicked
  last,          \* the last operation and its argument
  prev,          \* the operation before the last one
  items,         \* List.items / TabList.items / ButtonGroup.buttons / Dropdown.items
  dom,           \* DOM: the children of the ul / div / menu element, in order
  pending,       \* the items whose on_click listener holds an unconsumed click
  active,        \* the items whose is_active cell is true
  created,       \* number of items created so far
  pc,            \* where the owner of the component is: in or between step() calls
  reported,      \* what the last resolved step() reported
  toggle_pending, \* Dropdown.toggle_click holds an unconsumed click
  is_open,       \* Dropdown.is_open
  open,          \* Dropdown.open (the cell behind the menu class)
  storage,       \* localStorage: the value under "selected-item"
  storage_ok,    \* localStorage accepts reads and writes
  pane_event,    \* the step() of the current pane of the Library has an event
  cell,          \* the value of the reactive cell / the plain fields of a widget
  attrs,         \* DOM: the attributes and texts bound to the cell
  signals        \* the listeners and timers of a widget that hold an event

vars ==
  << container, mode, index, child, slots, default_slot, default_pane, panes,
     r_index, r_child, r_pane, r_panes, parent, style, scroll, built, calls,
     panicked, last, prev, items, dom, pending, active, created, pc, reported,
     toggle_pending, is_open, open, storage, storage_ok, pane_event, cell,
     attrs, signals >>

listVars == << items, dom, pending, active, created >>
stepVars == << pc, reported >>
dropdownVars == << toggle_pending, is_open, open >>
libraryVars == << storage, storage_ok, pane_event >>
widgetVars == << cell, attrs, signals >>
uiVars == << listVars, stepVars, dropdownVars, libraryVars, widgetVars >>

panesVars == << mode, index, child, slots, default_slot, default_pane, panes >>
restartVars == << r_index, r_child, r_pane, r_panes, built, calls >>

\* Bookkeeping of the calls made on the container.
Record(op, arg) ==
  /\ last' = [op |-> op, arg |-> arg]
  /\ prev' = last

\* Element::append_child
AppendChild(par, p, n) == [par EXCEPT ![n] = Some(p)]

\* Element::set_style / remove_style
SetStyle(sty, n, prop, value) == [sty EXCEPT ![n][prop] = value]
RemoveStyle(sty, n, prop) == [sty EXCEPT ![n][prop] = ""]

\* ProxyChild::replace(parent, new): the node the proxy stood for leaves the
\* parent and the new node takes its place.
ProxyReplace(par, p, old, new) ==
  [n \in Nodes |->
     IF n = new THEN Some(p)
     ELSE IF n = old THEN None
     ELSE par[n]]

RECURSIVE InDocumentIn(_, _)
\* The node is connected to the container element.
InDocumentIn(par, n) ==
  \/ n = Wrapper
  \/ /\ par[n] # None
     /\ InDocumentIn(par, par[n][1])

InDocument(n) == InDocumentIn(parent, n)

RECURSIVE Rendered(_)
\* The node has a layout box: it is connected and neither it nor an ancestor
\* has display: none.
Rendered(n) ==
  /\ style[n]["display"] # "none"
  /\ \/ n = Wrapper
     \/ /\ parent[n] # None
        /\ Rendered(parent[n][1])

\* PaneMode::Replace (doc): a subtree removed from the document loses its
\* transient state.
ScrollAfter(par) ==
  [n \in Nodes |-> IF InDocumentIn(par, n) THEN scroll[n] ELSE 0]

\* ------------------------------------------------------------------ Panes
\* Variant of Panes::new: the ProxyChild is built from an empty text node, as
\* new_retained does, instead of from the default pane.
PanesNewPlaceholderProxy ==
  /\ container = "Panes"
  /\ mode = "Replace"
  /\ index = None
  /\ child = Placeholder
  /\ slots = << >>
  /\ default_slot = None
  /\ default_pane = DefaultPaneNode
  /\ panes = << >>
  /\ parent = AppendChild([n \in Nodes |-> None], Wrapper, DefaultPaneNode)
  /\ style = [n \in Nodes |-> NoStyle]

\* Panes::new
PanesNew ==
  /\ container = "Panes"
  /\ mode = "Replace"
  /\ index = None
  /\ child = DefaultPaneNode
  /\ slots = << >>
  /\ default_slot = None
  /\ default_pane = DefaultPaneNode
  /\ panes = << >>
  /\ parent = AppendChild([n \in Nodes |-> None], Wrapper, DefaultPaneNode)
  /\ style = [n \in Nodes |-> NoStyle]

\* Panes::new_retained
PanesNewRetained ==
  /\ container = "Panes"
  /\ mode = "Retain"
  /\ index = None
  /\ child = Placeholder
  /\ slots = << >>
  /\ default_slot = Some(DefaultSlotNode)
  /\ default_pane = DefaultPaneNode
  /\ panes = << >>
  /\ parent =
       AppendChild(
         AppendChild([n \in Nodes |-> None], DefaultSlotNode, DefaultPaneNode),
         Wrapper, DefaultSlotNode)
  /\ style =
       SetStyle(
         SetStyle([n \in Nodes |-> NoStyle], Wrapper, "display", "flex"),
         Wrapper, "flex-direction", "column")

\* Panes::active_slot
Panes_active_slot ==
  IF index # None THEN slots[index[1] + 1] ELSE default_slot[1]

\* Variant of Panes::get_pane: reads panes[n + 1] for index Some(n).
Panes_get_pane_off_by_one ==
  IF index # None
    THEN (IF Get(panes, index[1] + 1) # None
            THEN Get(panes, index[1] + 1)[1]
            ELSE default_pane)
    ELSE default_pane

\* Panes::get_pane
Panes_get_pane ==
  IF index # None
    THEN (IF Get(panes, index[1]) # None
            THEN Get(panes, index[1])[1]
            ELSE default_pane)
    ELSE default_pane

\* Variant of Panes::add_pane: the slot is never appended to the wrapper.
Panes_add_pane_detached ==
  LET pane == PaneNode(Len(panes) + 1)
      slot == SlotNode(Len(slots) + 1)
  IN
  /\ container = "Panes"
  /\ ~panicked
  /\ Len(panes) < MaxPanes
  /\ IF mode = "Retain"
       THEN /\ style' =
                 SetStyle(
                   SetStyle(SetStyle(style, slot, "display", "none"),
                            slot, "flex", "1"),
                   slot, "min-height", "0")
            /\ parent' = AppendChild(parent, slot, pane)
            /\ slots' = Append(slots, slot)
       ELSE UNCHANGED << style, parent, slots >>
  /\ panes' = Append(panes, pane)
  /\ Record("add_pane", Len(panes))
  /\ UNCHANGED uiVars
  /\ UNCHANGED << container, mode, index, child, default_slot, default_pane,
                  scroll, panicked >>
  /\ UNCHANGED << r_index, r_child, r_pane, r_panes, built, calls >>

\* Panes::add_pane: the pane added is a fresh value with its own DOM node.
Panes_add_pane ==
  LET pane == PaneNode(Len(panes) + 1)
      slot == SlotNode(Len(slots) + 1)
  IN
  /\ container = "Panes"
  /\ ~panicked
  /\ Len(panes) < MaxPanes
  /\ IF mode = "Retain"
       THEN /\ style' =
                 SetStyle(
                   SetStyle(SetStyle(style, slot, "display", "none"),
                            slot, "flex", "1"),
                   slot, "min-height", "0")
            /\ parent' =
                 AppendChild(AppendChild(parent, slot, pane), Wrapper, slot)
            /\ slots' = Append(slots, slot)
       ELSE UNCHANGED << style, parent, slots >>
  /\ panes' = Append(panes, pane)
  /\ Record("add_pane", Len(panes))
  /\ UNCHANGED uiVars
  /\ UNCHANGED << container, mode, index, child, default_slot, default_pane,
                  scroll, panicked >>
  /\ UNCHANGED << r_index, r_child, r_pane, r_panes, built, calls >>

\* Variant of the Replace arm: the pane is appended to the wrapper instead of
\* replacing the current content through the ProxyChild.
SelectReplaceAppend(i) ==
  IF Get(panes, i) # None
    THEN LET pane == Get(panes, i)[1]
         IN
         /\ index' = Some(i)
         /\ parent' = AppendChild(parent, Wrapper, pane)
         /\ UNCHANGED << child, scroll, style, panicked >>
    ELSE UNCHANGED << index, child, parent, scroll, style, panicked >>

\* Panes::select, PaneMode::Replace arm
SelectReplace(i) ==
  IF Get(panes, i) # None
    THEN LET pane == Get(panes, i)[1]
             par == ProxyReplace(parent, Wrapper, child, pane)
         IN
         /\ index' = Some(i)
         /\ child' = pane
         /\ parent' = par
         /\ scroll' = ScrollAfter(par)
         /\ UNCHANGED << style, panicked >>
    ELSE UNCHANGED << index, child, parent, scroll, style, panicked >>

\* Variant of the Retain arm: self.index is not updated.
SelectRetainNoIndex(i) ==
  IF i < Len(panes)
    THEN /\ style' =
              RemoveStyle(SetStyle(style, Panes_active_slot, "display", "none"),
                          slots[i + 1], "display")
         /\ UNCHANGED << index, child, parent, scroll, panicked >>
    ELSE UNCHANGED << index, child, parent, scroll, style, panicked >>

\* Variant of the Retain arm: the active slot is not hidden.
SelectRetainNoHide(i) ==
  IF i < Len(panes)
    THEN /\ style' = RemoveStyle(style, slots[i + 1], "display")
         /\ index' = Some(i)
         /\ UNCHANGED << child, parent, scroll, panicked >>
    ELSE UNCHANGED << index, child, parent, scroll, style, panicked >>

\* Variant of the Retain arm: the active slot is removed from the wrapper and
\* the selected slot appended, in addition to the display toggle.
SelectRetainSwap(i) ==
  IF i < Len(panes)
    THEN LET par ==
               AppendChild([parent EXCEPT ![Panes_active_slot] = None],
                           Wrapper, slots[i + 1])
         IN
         /\ style' =
              RemoveStyle(SetStyle(style, Panes_active_slot, "display", "none"),
                          slots[i + 1], "display")
         /\ parent' = par
         /\ scroll' = ScrollAfter(par)
         /\ index' = Some(i)
         /\ UNCHANGED << child, panicked >>
    ELSE UNCHANGED << index, child, parent, scroll, style, panicked >>

\* Variant of the Retain arm: the range check is index <= len, so that
\* slots[index] panics for index = len after the active slot was hidden.
SelectRetainOffByOne(i) ==
  IF i <= Len(panes)
    THEN IF i < Len(slots)
           THEN /\ style' =
                     RemoveStyle(
                       SetStyle(style, Panes_active_slot, "display", "none"),
                       slots[i + 1], "display")
                /\ index' = Some(i)
                /\ UNCHANGED << child, parent, scroll, panicked >>
           ELSE /\ style' =
                     SetStyle(style, Panes_active_slot, "display", "none")
                /\ panicked' = TRUE
                /\ UNCHANGED << index, child, parent, scroll >>
    ELSE UNCHANGED << index, child, parent, scroll, style, panicked >>

\* Panes::select, PaneMode::Retain arm
SelectRetain(i) ==
  IF i < Len(panes)
    THEN /\ style' =
              RemoveStyle(SetStyle(style, Panes_active_slot, "display", "none"),
                          slots[i + 1], "display")
         /\ index' = Some(i)
         /\ UNCHANGED << child, parent, scroll, panicked >>
    ELSE UNCHANGED << index, child, parent, scroll, style, panicked >>

\* Panes::select
Panes_select(i) ==
  /\ container = "Panes"
  /\ ~panicked
  /\ IF Some(i) # index
       THEN IF mode = "Replace" THEN SelectReplace(i) ELSE SelectRetain(i)
       ELSE UNCHANGED << index, child, parent, scroll, style, panicked >>
  /\ Record("select", i)
  /\ UNCHANGED uiVars
  /\ UNCHANGED << container, mode, slots, default_slot, default_pane, panes >>
  /\ UNCHANGED << r_index, r_child, r_pane, r_panes, built, calls >>

\* The user scrolls a pane that is on screen.
Scroll(n, v) ==
  /\ container = "Panes"
  /\ ~panicked
  /\ n \in {default_pane} \cup { panes[k] : k \in 1 .. Len(panes) }
  /\ Rendered(n)
  /\ scroll' = [scroll EXCEPT ![n] = v]
  /\ Record("scroll", v)
  /\ UNCHANGED uiVars
  /\ UNCHANGED << container, panicked, parent, style >>
  /\ UNCHANGED panesVars
  /\ UNCHANGED restartVars

\* ------------------------------------------------------------------ RestartPanes
\* The value of type T a factory returns: a new instance with its own DOM
\* node and no accumulated state.
Fresh(g, i) == [id |-> g, factory |-> Some(i), state |-> 0]

\* RestartPanes::new
RestartPanesNew ==
  /\ container = "RestartPanes"
  /\ r_index = None
  /\ r_child = InstanceNode(0)
  /\ r_pane = [id |-> 0, factory |-> None, state |-> 0]
  /\ r_panes = << >>
  /\ parent = AppendChild([n \in Nodes |-> None], Wrapper, InstanceNode(0))
  /\ style = [n \in Nodes |-> NoStyle]

\* Variant of RestartPanes::select: the new instance is attached but not
\* stored in self.pane.
RestartSelectStalePane(fs, i) ==
  IF Some(i) # r_index /\ Get(fs, i) # None
    THEN LET pane == Fresh(built + 1, Get(fs, i)[1])
             par == ProxyReplace(parent, Wrapper, r_child, InstanceNode(pane.id))
         IN
         /\ built < MaxBuilt
         /\ built' = built + 1
         /\ calls' = [calls EXCEPT ![Get(fs, i)[1]] = @ + 1]
         /\ r_child' = InstanceNode(pane.id)
         /\ parent' = par
         /\ scroll' = ScrollAfter(par)
         /\ r_index' = Some(i)
         /\ UNCHANGED r_pane
    ELSE UNCHANGED << built, calls, r_pane, r_child, parent, scroll, r_index >>

\* Variant of RestartPanes::select: no check against the current index.
RestartSelectNoGuard(fs, i) ==
  IF Get(fs, i) # None
    THEN LET pane == Fresh(built + 1, Get(fs, i)[1])
             par == ProxyReplace(parent, Wrapper, r_child, InstanceNode(pane.id))
         IN
         /\ built < MaxBuilt
         /\ built' = built + 1
         /\ calls' = [calls EXCEPT ![Get(fs, i)[1]] = @ + 1]
         /\ r_pane' = pane
         /\ r_child' = InstanceNode(pane.id)
         /\ parent' = par
         /\ scroll' = ScrollAfter(par)
         /\ r_index' = Some(i)
    ELSE UNCHANGED << built, calls, r_pane, r_child, parent, scroll, r_index >>

\* RestartPanes::select on a container whose factories are fs
RestartSelect(fs, i) ==
  IF Some(i) # r_index /\ Get(fs, i) # None
    THEN LET pane == Fresh(built + 1, Get(fs, i)[1])
             par == ProxyReplace(parent, Wrapper, r_child, InstanceNode(pane.id))
         IN
         /\ built < MaxBuilt
         /\ built' = built + 1
         /\ calls' = [calls EXCEPT ![Get(fs, i)[1]] = @ + 1]
         /\ r_pane' = pane
         /\ r_child' = InstanceNode(pane.id)
         /\ parent' = par
         /\ scroll' = ScrollAfter(par)
         /\ r_index' = Some(i)
    ELSE UNCHANGED << built, calls, r_pane, r_child, parent, scroll, r_index >>

\* Variant of RestartPanes::add_pane: index 0 is selected whenever the
\* container is not empty (len >= 1 instead of len == 1).
RestartPanes_add_pane_reselect ==
  LET fs == Append(r_panes, Len(r_panes))
  IN
  /\ container = "RestartPanes"
  /\ ~panicked
  /\ Len(r_panes) < MaxPanes
  /\ r_panes' = fs
  /\ IF Len(fs) >= 1
       THEN RestartSelect(fs, 0)
       ELSE UNCHANGED << built, calls, r_pane, r_child, parent, scroll,
                         r_index >>
  /\ Record("add_pane", Len(r_panes))
  /\ UNCHANGED uiVars
  /\ UNCHANGED << container, style, panicked >>
  /\ UNCHANGED panesVars

\* RestartPanes::add_pane: the factory pushed is the one of the new index.
RestartPanes_add_pane ==
  LET fs == Append(r_panes, Len(r_panes))
  IN
  /\ container = "RestartPanes"
  /\ ~panicked
  /\ Len(r_panes) < MaxPanes
  /\ r_panes' = fs
  /\ IF Len(fs) = 1
       THEN RestartSelect(fs, 0)
       ELSE UNCHANGED << built, calls, r_pane, r_child, parent, scroll,
                         r_index >>
  /\ Record("add_pane", Len(r_panes))
  /\ UNCHANGED uiVars
  /\ UNCHANGED << container, style, panicked >>
  /\ UNCHANGED panesVars

\* RestartPanes::select
RestartPanes_select(i) ==
  /\ container = "RestartPanes"
  /\ ~panicked
  /\ RestartSelect(r_panes, i)
  /\ Record("select", i)
  /\ UNCHANGED uiVars
  /\ UNCHANGED << container, style, panicked, r_panes >>
  /\ UNCHANGED panesVars

\* RestartPanes::get_pane
RestartPanes_get_pane == r_pane

\* RestartPanes::get_pane_mut: the owner steps the current instance, which
\* accumulates state.
RestartPanes_get_pane_mut ==
  /\ container = "RestartPanes"
  /\ ~panicked
  /\ r_pane.state < MaxState
  /\ r_pane' = [r_pane EXCEPT !.state = @ + 1]
  /\ Record("get_pane_mut", r_pane.state + 1)
  /\ UNCHANGED uiVars
  /\ UNCHANGED << container, parent, style, scroll, panicked >>
  /\ UNCHANGED << r_index, r_child, r_panes, built, calls >>
  /\ UNCHANGED panesVars

\* ------------------------------------------------------------------ program
\* The fields of the container type that was not constructed.
NoPanes ==
  /\ mode = "Replace"
  /\ index = None
  /\ child = Placeholder
  /\ slots = << >>
  /\ default_slot = None
  /\ default_pane = DefaultPaneNode
  /\ panes = << >>

NoRestartPanes ==
  /\ r_index = None
  /\ r_child = Placeholder
  /\ r_pane = [id |-> 0, factory |-> None, state |-> 0]
  /\ r_panes = << >>

\* The state of the components when only a pane container was constructed.
NoComponent ==
  /\ items = << >>
  /\ dom = << >>
  /\ pending = {}
  /\ active = {}
  /\ created = 0
  /\ pc = "idle"
  /\ reported = [kind |-> "none", index |-> 0, item |-> 0]
  /\ toggle_pending = FALSE
  /\ is_open = FALSE
  /\ open = FALSE
  /\ storage = None
  /\ storage_ok = TRUE
  /\ pane_event = FALSE
  /\ cell = << >>
  /\ attrs = << >>
  /\ signals = {}

Init ==
  /\ \/ PanesNew /\ NoRestartPanes
     \/ PanesNewRetained /\ NoRestartPanes
     \/ RestartPanesNew /\ NoPanes
  /\ scroll = [n \in Nodes |-> 0]
  /\ built = 0
  /\ calls = [k \in 0 .. MaxPanes |-> 0]
  /\ panicked = FALSE
  /\ last = [op |-> "new", arg |-> 0]
  /\ prev = [op |-> "new", arg |-> 0]
  /\ NoComponent

Next ==
  \/ Panes_add_pane
  \/ \E i \in SelectArgs : Panes_select(i)
  \/ \E n \in Nodes, v \in ScrollOffsets : Scroll(n, v)
  \/ RestartPanes_add_pane
  \/ \E i \in SelectArgs : RestartPanes_select(i)
  \/ RestartPanes_get_pane_mut

Spec == Init /\ [][Next]_vars

\* ------------------------------------------------------------------ components
\* Item containers (List, TabList, ButtonGroup, Dropdown) and the Library.
\* An item is named by the order of its creation (1, 2, ...); `items` is the
\* Vec the component keeps and `dom` the child order of its element.

\* Largest number of items created in one component.
MaxItems == 3
\* Index arguments of insert / remove / select: every valid index and at
\* least one invalid one.
IndexArgs == 0 .. MaxItems
ItemContainers == {"List", "TabList", "ButtonGroup", "Dropdown"}

\* Every variable of the pane containers and of the DOM below them.
paneWorld == << panesVars, restartVars, parent, style, scroll, built, calls >>

Note(op, arg) ==
  /\ last' = [op |-> op, arg |-> arg]
  /\ UNCHANGED prev

\* Vec::insert (the caller has checked i <= len)
VecInsert(v, i, x) == SubSeq(v, 1, i) \o << x >> \o SubSeq(v, i + 1, Len(v))
\* Vec::remove (the caller has checked i < len)
VecRemove(v, i) == SubSeq(v, 1, i) \o SubSeq(v, i + 2, Len(v))
\* Element::remove_child on a child list
RemoveChild(d, x) == SelectSeq(d, LAMBDA y : y # x)
\* The element is a child in the child list.
IsChild(d, x) == \E j \in 1 .. Len(d) : d[j] = x
\* Element::insert_child_before(child, Some(before)) on a child list whose
\* children include `before` (DOM insertBefore): the child leaves its old
\* place, if it had one, and is put right before `before`.
InsertChildBefore(d, c, before) ==
  LET rest == RemoveChild(d, c)
      at == CHOOSE j \in 1 .. Len(rest) : rest[j] = before
  IN SubSeq(rest, 1, at - 1) \o << c >> \o SubSeq(rest, at, Len(rest))

\* The indices whose item.on_click.next() is ready.
Ready == {i \in 0 .. Len(items) - 1 : items[i + 1] \in pending}
\* race_all(events) (mogwai::future, outside this source tree): the futures
\* are polled in the order of the iterator, so the first ready one in child
\* order wins, as the specification requires of ties (deterministic order).
race_all(ready) ==
  {i \in ready : \A j \in ready : i <= j}
\* a.or(b).or(c)...: the first ready future in the order of the chain wins.
or_chain(ready) ==
  {i \in ready : \A j \in ready : i <= j}

NoEvent == [kind |-> "none", index |-> 0, item |-> 0]
ItemClicked(i) == [kind |-> "item", index |-> i, item |-> items[i + 1]]

\* A click on the element of an item: its listener buffers the event.  Only
\* an element that is in the page can be clicked; the Library is in the page
\* once main() has appended it.
Click(id) ==
  /\ container \in ItemContainers \cup {"Library"}
  /\ ~panicked
  /\ pc # "constructing"
  /\ \E i \in 0 .. Len(items) - 1 : items[i + 1] = id
  /\ IsChild(dom, id)
  /\ pending' = pending \cup {id}
  /\ Note("click", id)
  /\ UNCHANGED << items, dom, active, created, stepVars, dropdownVars,
                  libraryVars, container, panicked >>
  /\ UNCHANGED paneWorld
  /\ UNCHANGED widgetVars

\* Variant of step(): the call itself clears the active marking before the
\* first poll.
StepCallMutating ==
  /\ container \in ItemContainers \cup {"Library"}
  /\ ~panicked
  /\ pc = "idle"
  /\ pc' = "waiting"
  /\ active' = {}
  /\ Note("step_call", 0)
  /\ UNCHANGED << items, dom, pending, created, reported, dropdownVars,
                  libraryVars, container, panicked >>
  /\ UNCHANGED paneWorld
  /\ UNCHANGED widgetVars

\* step() is called and polled: the future is built from &self and waits.
StepCall ==
  /\ container \in ItemContainers \cup {"Library"}
  /\ ~panicked
  /\ pc = "idle"
  /\ pc' = "waiting"
  /\ Note("step_call", 0)
  /\ UNCHANGED << listVars, reported, dropdownVars, libraryVars, container,
                  panicked >>
  /\ UNCHANGED paneWorld
  /\ UNCHANGED widgetVars

\* The pending step() future is dropped (the loser of an .or(), or a host
\* that abandons its loop).
StepDrop ==
  /\ container \in ItemContainers \cup {"Library"}
  /\ ~panicked
  /\ pc = "waiting"
  /\ pc' = "idle"
  /\ Note("drop", 0)
  /\ UNCHANGED << listVars, reported, dropdownVars, libraryVars, container,
                  panicked >>
  /\ UNCHANGED paneWorld
  /\ UNCHANGED widgetVars

\* ---- List
\* List::push
List_push ==
  /\ container = "List"
  /\ ~panicked
  /\ pc = "idle"
  /\ created < MaxItems
  /\ created' = created + 1
  /\ dom' = Append(dom, created + 1)
  /\ items' = Append(items, created + 1)
  /\ Note("push", Len(items))
  /\ UNCHANGED << pending, active, stepVars, dropdownVars, libraryVars,
                  container, panicked >>
  /\ UNCHANGED paneWorld
  /\ UNCHANGED widgetVars

\* List::insert.  Below len the code calls
\* insert_child_before(existing item, Some(&new item)): the existing element
\* is the child to insert and the new, unattached element is the reference
\* node.  The DOM rejects a reference node that is no child (NotFoundError)
\* and changes nothing; the view layer either raises that as a panic, before
\* the Vec is touched, or drops it.  At len and beyond the item is appended.
List_insert(k) ==
  LET new == created + 1
  IN
  /\ container = "List"
  /\ ~panicked
  /\ pc = "idle"
  /\ created < MaxItems
  /\ created' = new
  /\ IF k < Len(items)
       THEN IF IsChild(dom, new)
              THEN /\ dom' = InsertChildBefore(dom, items[k + 1], new)
                   /\ items' = VecInsert(items, k, new)
                   /\ UNCHANGED panicked
              ELSE \/ /\ panicked' = TRUE
                      /\ UNCHANGED << items, dom >>
                   \/ /\ items' = VecInsert(items, k, new)
                      /\ UNCHANGED << dom, panicked >>
       ELSE /\ dom' = Append(dom, new)
            /\ items' = Append(items, new)
            /\ UNCHANGED panicked
  /\ Note("insert", k)
  /\ UNCHANGED << pending, active, stepVars, dropdownVars, libraryVars,
                  container >>
  /\ UNCHANGED paneWorld
  /\ UNCHANGED widgetVars

\* Variant of List::remove: Vec::swap_remove instead of Vec::remove.
List_remove_swap(k) ==
  /\ container = "List"
  /\ ~panicked
  /\ pc = "idle"
  /\ IF k < Len(items)
       THEN /\ items' = SubSeq([items EXCEPT ![k + 1] = items[Len(items)]],
                              1, Len(items) - 1)
            /\ dom' = RemoveChild(dom, items[k + 1])
            /\ pending' = pending \ {items[k + 1]}
            /\ active' = active \ {items[k + 1]}
            /\ UNCHANGED panicked
       ELSE /\ panicked' = TRUE
            /\ UNCHANGED << items, dom, pending, active >>
  /\ Note("remove", k)
  /\ UNCHANGED << created, stepVars, dropdownVars, libraryVars, container >>
  /\ UNCHANGED paneWorld
  /\ UNCHANGED widgetVars

\* Variant of List::remove: an index out of range is ignored.
List_remove_lenient(k) ==
  /\ container = "List"
  /\ ~panicked
  /\ pc = "idle"
  /\ IF k < Len(items)
       THEN /\ items' = VecRemove(items, k)
            /\ dom' = RemoveChild(dom, items[k + 1])
            /\ pending' = pending \ {items[k + 1]}
            /\ active' = active \ {items[k + 1]}
       ELSE UNCHANGED << items, dom, pending, active >>
  /\ Note("remove", k)
  /\ UNCHANGED << created, stepVars, dropdownVars, libraryVars, container,
                  panicked >>
  /\ UNCHANGED paneWorld
  /\ UNCHANGED widgetVars

\* List::remove: Vec::remove panics before the DOM is touched when the index
\* is out of range; the removed ListItem and its listener are dropped.
\* remove_child of an element that is no child of the ul fails in the DOM
\* (NotFoundError), which the view layer either raises as a panic or drops.
List_remove(k) ==
  /\ container = "List"
  /\ ~panicked
  /\ pc = "idle"
  /\ IF k < Len(items)
       THEN /\ items' = VecRemove(items, k)
            /\ pending' = pending \ {items[k + 1]}
            /\ active' = active \ {items[k + 1]}
            /\ IF IsChild(dom, items[k + 1])
                 THEN /\ dom' = RemoveChild(dom, items[k + 1])
                      /\ UNCHANGED panicked
                 ELSE /\ UNCHANGED dom
                      /\ panicked' \in BOOLEAN
       ELSE /\ panicked' = TRUE
            /\ UNCHANGED << items, dom, pending, active >>
  /\ Note("remove", k)
  /\ UNCHANGED << created, stepVars, dropdownVars, libraryVars, container >>
  /\ UNCHANGED paneWorld
  /\ UNCHANGED widgetVars

\* Variant of List::item_click_events: the index counts the ready items only.
List_item_click_events_ranked ==
  {Cardinality({j \in Ready : j < i}) : i \in race_all(Ready)}

\* List::item_click_events: the indices the race can resolve to.
List_item_click_events == race_all(Ready)

\* List::step resolves: the winner's click is consumed and its index reported.
List_step ==
  /\ container = "List"
  /\ ~panicked
  /\ pc = "waiting"
  /\ \E i \in List_item_click_events :
       /\ reported' = ItemClicked(i)
       /\ pending' = pending \ {items[i + 1]}
       /\ Note("step", i)
  /\ pc' = "idle"
  /\ UNCHANGED << items, dom, active, created, dropdownVars, libraryVars,
                  container, panicked >>
  /\ UNCHANGED paneWorld
  /\ UNCHANGED widgetVars

\* ---- ButtonGroup
\* ButtonGroup::push
ButtonGroup_push ==
  /\ container = "ButtonGroup"
  /\ ~panicked
  /\ pc = "idle"
  /\ created < MaxItems
  /\ created' = created + 1
  /\ dom' = Append(dom, created + 1)
  /\ items' = Append(items, created + 1)
  /\ Note("push", Len(items))
  /\ UNCHANGED << pending, active, stepVars, dropdownVars, libraryVars,
                  container, panicked >>
  /\ UNCHANGED paneWorld
  /\ UNCHANGED widgetVars

\* ButtonGroup::insert.  Below len the code calls
\* insert_child_before(existing item, Some(&new item)): the existing element
\* is the child to insert and the new, unattached element is the reference
\* node.  The DOM rejects a reference node that is no child (NotFoundError)
\* and changes nothing; the view layer either raises that as a panic, before
\* the Vec is touched, or drops it.  At len and beyond the item is appended.
ButtonGroup_insert(k) ==
  LET new == created + 1
  IN
  /\ container = "ButtonGroup"
  /\ ~panicked
  /\ pc = "idle"
  /\ created < MaxItems
  /\ created' = new
  /\ IF k < Len(items)
       THEN IF IsChild(dom, new)
              THEN /\ dom' = InsertChildBefore(dom, items[k + 1], new)
                   /\ items' = VecInsert(items, k, new)
                   /\ UNCHANGED panicked
              ELSE \/ /\ panicked' = TRUE
                      /\ UNCHANGED << items, dom >>
                   \/ /\ items' = VecInsert(items, k, new)
                      /\ UNCHANGED << dom, panicked >>
       ELSE /\ dom' = Append(dom, new)
            /\ items' = Append(items, new)
            /\ UNCHANGED panicked
  /\ Note("insert", k)
  /\ UNCHANGED << pending, active, stepVars, dropdownVars, libraryVars,
                  container >>
  /\ UNCHANGED paneWorld
  /\ UNCHANGED widgetVars

\* ButtonGroup::remove: the Button is returned to the caller, who may keep
\* it; it is no child of the group any more.
ButtonGroup_remove(k) ==
  /\ container = "ButtonGroup"
  /\ ~panicked
  /\ pc = "idle"
  /\ IF k < Len(items)
       THEN /\ items' = VecRemove(items, k)
            /\ pending' = pending \ {items[k + 1]}
            /\ IF IsChild(dom, items[k + 1])
                 THEN /\ dom' = RemoveChild(dom, items[k + 1])
                      /\ UNCHANGED panicked
                 ELSE /\ UNCHANGED dom
                      /\ panicked' \in BOOLEAN
       ELSE /\ panicked' = TRUE
            /\ UNCHANGED << items, dom, pending >>
  /\ Note("remove", k)
  /\ UNCHANGED << active, created, stepVars, dropdownVars, libraryVars,
                  container >>
  /\ UNCHANGED paneWorld
  /\ UNCHANGED widgetVars

\* ButtonGroup::item_click_events: the indices the race can resolve to.
ButtonGroup_item_click_events == race_all(Ready)

\* ButtonGroup::step resolves.
ButtonGroup_step ==
  /\ container = "ButtonGroup"
  /\ ~panicked
  /\ pc = "waiting"
  /\ \E i \in ButtonGroup_item_click_events :
       /\ reported' = ItemClicked(i)
       /\ pending' = pending \ {items[i + 1]}
       /\ Note("step", i)
  /\ pc' = "idle"
  /\ UNCHANGED << items, dom, active, created, dropdownVars, libraryVars,
                  container, panicked >>
  /\ UNCHANGED paneWorld
  /\ UNCHANGED widgetVars

\* ---- Dropdown
\* Dropdown::push
Dropdown_push ==
  /\ container = "Dropdown"
  /\ ~panicked
  /\ pc = "idle"
  /\ created < MaxItems
  /\ created' = created + 1
  /\ dom' = Append(dom, created + 1)
  /\ items' = Append(items, created + 1)
  /\ Note("push", Len(items))
  /\ UNCHANGED << pending, active, stepVars, dropdownVars, libraryVars,
                  container, panicked >>
  /\ UNCHANGED paneWorld
  /\ UNCHANGED widgetVars

\* Dropdown::remove
Dropdown_remove(k) ==
  /\ container = "Dropdown"
  /\ ~panicked
  /\ pc = "idle"
  /\ IF k < Len(items)
       THEN /\ items' = VecRemove(items, k)
            /\ dom' = RemoveChild(dom, items[k + 1])
            /\ pending' = pending \ {items[k + 1]}
            /\ UNCHANGED panicked
       ELSE /\ panicked' = TRUE
            /\ UNCHANGED << items, dom, pending >>
  /\ Note("remove", k)
  /\ UNCHANGED << active, created, stepVars, dropdownVars, libraryVars,
                  container >>
  /\ UNCHANGED paneWorld
  /\ UNCHANGED widgetVars

\* Dropdown::show
Dropdown_show ==
  /\ container = "Dropdown"
  /\ ~panicked
  /\ pc = "idle"
  /\ is_open' = TRUE
  /\ open' = TRUE
  /\ Note("show", 0)
  /\ UNCHANGED << listVars, stepVars, toggle_pending, libraryVars, container,
                  panicked >>
  /\ UNCHANGED paneWorld
  /\ UNCHANGED widgetVars

\* Dropdown::hide
Dropdown_hide ==
  /\ container = "Dropdown"
  /\ ~panicked
  /\ pc = "idle"
  /\ is_open' = FALSE
  /\ open' = FALSE
  /\ Note("hide", 0)
  /\ UNCHANGED << listVars, stepVars, toggle_pending, libraryVars, container,
                  panicked >>
  /\ UNCHANGED paneWorld
  /\ UNCHANGED widgetVars

\* Dropdown::toggle
Dropdown_toggle ==
  /\ container = "Dropdown"
  /\ ~panicked
  /\ pc = "idle"
  /\ is_open' = ~is_open
  /\ open' = ~is_open
  /\ Note("toggle", 0)
  /\ UNCHANGED << listVars, stepVars, toggle_pending, libraryVars, container,
                  panicked >>
  /\ UNCHANGED paneWorld
  /\ UNCHANGED widgetVars

\* A click on the toggle button: toggle_click buffers the event.
ToggleClick ==
  /\ container = "Dropdown"
  /\ ~panicked
  /\ toggle_pending' = TRUE
  /\ Note("toggle_click", 0)
  /\ UNCHANGED << listVars, stepVars, is_open, open, libraryVars, container,
                  panicked >>
  /\ UNCHANGED paneWorld
  /\ UNCHANGED widgetVars

\* A click outside the dropdown while it is in the page.  Dropdown::new puts a
\* listener on the toggle button and DropdownItem::new one on each menu item;
\* no listener of the component receives a click anywhere else.
OutsideClick ==
  /\ container = "Dropdown"
  /\ ~panicked
  /\ Note("outside_click", 0)
  /\ UNCHANGED << listVars, stepVars, dropdownVars, libraryVars, container,
                  panicked >>
  /\ UNCHANGED paneWorld
  /\ UNCHANGED widgetVars

\* Dropdown::item_click_events: the indices the race can resolve to.
Dropdown_item_click_events == race_all(Ready)

\* Variant of Dropdown::step: a toggle click opens or closes the menu before
\* None is returned.
Dropdown_step_toggling ==
  /\ container = "Dropdown"
  /\ ~panicked
  /\ pc = "waiting"
  /\ IF toggle_pending
       THEN /\ reported' = [kind |-> "toggle", index |-> 0, item |-> 0]
            /\ toggle_pending' = FALSE
            /\ is_open' = ~is_open
            /\ open' = ~is_open
            /\ Note("step", 0)
            /\ UNCHANGED pending
       ELSE /\ \E i \in Dropdown_item_click_events :
                 /\ reported' = ItemClicked(i)
                 /\ pending' = pending \ {items[i + 1]}
                 /\ Note("step", i)
            /\ UNCHANGED << toggle_pending, is_open, open >>
  /\ pc' = "idle"
  /\ UNCHANGED << items, dom, active, created, libraryVars, container,
                  panicked >>
  /\ UNCHANGED paneWorld
  /\ UNCHANGED widgetVars

\* Variant of Dropdown::step: the two sides of the .or() are swapped, so a
\* buffered item click wins over a buffered toggle click.
Dropdown_step_items_first ==
  /\ container = "Dropdown"
  /\ ~panicked
  /\ pc = "waiting"
  /\ IF Dropdown_item_click_events = {}
       THEN /\ toggle_pending
            /\ reported' = [kind |-> "toggle", index |-> 0, item |-> 0]
            /\ toggle_pending' = FALSE
            /\ Note("step", 0)
            /\ UNCHANGED pending
       ELSE /\ \E i \in Dropdown_item_click_events :
                 /\ reported' = ItemClicked(i)
                 /\ pending' = pending \ {items[i + 1]}
                 /\ Note("step", i)
            /\ UNCHANGED toggle_pending
  /\ pc' = "idle"
  /\ UNCHANGED << items, dom, active, created, is_open, open, libraryVars,
                  container, panicked >>
  /\ UNCHANGED paneWorld
  /\ UNCHANGED widgetVars

\* Dropdown::step resolves: toggle_click.next() is the first future of the
\* .or(), so a buffered toggle click wins over the item clicks.
Dropdown_step ==
  /\ container = "Dropdown"
  /\ ~panicked
  /\ pc = "waiting"
  /\ IF toggle_pending
       THEN /\ reported' = [kind |-> "toggle", index |-> 0, item |-> 0]
            /\ toggle_pending' = FALSE
            /\ Note("step", 0)
            /\ UNCHANGED pending
       ELSE /\ \E i \in Dropdown_item_click_events :
                 /\ reported' = ItemClicked(i)
                 /\ pending' = pending \ {items[i + 1]}
                 /\ Note("step", i)
            /\ UNCHANGED toggle_pending
  /\ pc' = "idle"
  /\ UNCHANGED << items, dom, active, created, is_open, open, libraryVars,
                  container, panicked >>
  /\ UNCHANGED paneWorld
  /\ UNCHANGED widgetVars

\* ---- TabList
\* TabList::deselect_all followed by the guarded activation of TabList::select,
\* on the item vector its.
TabList_select_in(its, k) ==
  IF k < Len(its) THEN {its[k + 1]} ELSE {}

\* TabList::push: the push that makes the list one tab long selects tab 0;
\* the call returns the index of the new tab, recorded as the argument of the
\* operation.
TabList_push ==
  LET index_ == Len(items)
      its == Append(items, created + 1)
  IN
  /\ container = "TabList"
  /\ ~panicked
  /\ pc = "idle"
  /\ created < MaxItems
  /\ created' = created + 1
  /\ dom' = Append(dom, created + 1)
  /\ items' = its
  /\ active' = IF Len(its) = 1 THEN TabList_select_in(its, 0) ELSE active
  /\ Note("push", index_)
  /\ UNCHANGED << pending, stepVars, dropdownVars, libraryVars, container,
                  panicked >>
  /\ UNCHANGED paneWorld
  /\ UNCHANGED widgetVars

\* TabList::insert: the element is appended to the ul, then Vec::insert
\* places the item at the index (and panics when the index is beyond len).
TabList_insert(k) ==
  /\ container = "TabList"
  /\ ~panicked
  /\ pc = "idle"
  /\ created < MaxItems
  /\ created' = created + 1
  /\ dom' = Append(dom, created + 1)
  /\ IF k <= Len(items)
       THEN /\ items' = VecInsert(items, k, created + 1)
            /\ UNCHANGED panicked
       ELSE /\ panicked' = TRUE
            /\ UNCHANGED items
  /\ Note("insert", k)
  /\ UNCHANGED << pending, active, stepVars, dropdownVars, libraryVars,
                  container >>
  /\ UNCHANGED paneWorld
  /\ UNCHANGED widgetVars

\* TabList::pop: the last tab leaves the vector and the ul; None on an empty
\* list.
TabList_pop ==
  /\ container = "TabList"
  /\ ~panicked
  /\ pc = "idle"
  /\ IF items # << >>
       THEN /\ items' = SubSeq(items, 1, Len(items) - 1)
            /\ dom' = RemoveChild(dom, items[Len(items)])
            /\ pending' = pending \ {items[Len(items)]}
            /\ active' = active \ {items[Len(items)]}
       ELSE UNCHANGED << items, dom, pending, active >>
  /\ Note("pop", 0)
  /\ UNCHANGED << created, stepVars, dropdownVars, libraryVars, container,
                  panicked >>
  /\ UNCHANGED paneWorld
  /\ UNCHANGED widgetVars

\* TabList::remove
TabList_remove(k) ==
  /\ container = "TabList"
  /\ ~panicked
  /\ pc = "idle"
  /\ IF k < Len(items)
       THEN /\ items' = VecRemove(items, k)
            /\ dom' = RemoveChild(dom, items[k + 1])
            /\ pending' = pending \ {items[k + 1]}
            /\ active' = active \ {items[k + 1]}
            /\ UNCHANGED panicked
       ELSE /\ panicked' = TRUE
            /\ UNCHANGED << items, dom, pending, active >>
  /\ Note("remove", k)
  /\ UNCHANGED << created, stepVars, dropdownVars, libraryVars, container >>
  /\ UNCHANGED paneWorld
  /\ UNCHANGED widgetVars

\* TabList::deselect_all
TabList_deselect_all ==
  /\ container = "TabList"
  /\ ~panicked
  /\ pc = "idle"
  /\ active' = {}
  /\ Note("deselect_all", 0)
  /\ UNCHANGED << items, dom, pending, created, stepVars, dropdownVars,
                  libraryVars, container, panicked >>
  /\ UNCHANGED paneWorld
  /\ UNCHANGED widgetVars

\* Variant of TabList::select: the tab is activated without deselect_all.
TabList_select_additive(k) ==
  /\ container = "TabList"
  /\ ~panicked
  /\ pc = "idle"
  /\ active' = active \cup TabList_select_in(items, k)
  /\ Note("select", k)
  /\ UNCHANGED << items, dom, pending, created, stepVars, dropdownVars,
                  libraryVars, container, panicked >>
  /\ UNCHANGED paneWorld
  /\ UNCHANGED widgetVars

\* TabList::select
TabList_select(k) ==
  /\ container = "TabList"
  /\ ~panicked
  /\ pc = "idle"
  /\ active' = TabList_select_in(items, k)
  /\ Note("select", k)
  /\ UNCHANGED << items, dom, pending, created, stepVars, dropdownVars,
                  libraryVars, container, panicked >>
  /\ UNCHANGED paneWorld
  /\ UNCHANGED widgetVars

\* TabList::item_events: pending().or(click 0).or(click 1)...
TabList_item_events == or_chain(Ready)

\* TabList::step resolves.
TabList_step ==
  /\ container = "TabList"
  /\ ~panicked
  /\ pc = "waiting"
  /\ \E i \in TabList_item_events :
       /\ reported' = ItemClicked(i)
       /\ pending' = pending \ {items[i + 1]}
       /\ Note("step", i)
  /\ pc' = "idle"
  /\ UNCHANGED << items, dom, active, created, dropdownVars, libraryVars,
                  container, panicked >>
  /\ UNCHANGED paneWorld
  /\ UNCHANGED widgetVars

\* ---- Library
\* Library::default before the first add_item: an empty list and a
\* RestartPanes showing its default pane.
LibraryNew ==
  /\ container = "Library"
  /\ r_index = None
  /\ r_child = InstanceNode(0)
  /\ r_pane = [id |-> 0, factory |-> None, state |-> 0]
  /\ r_panes = << >>
  /\ parent = AppendChild([n \in Nodes |-> None], Wrapper, InstanceNode(0))
  /\ style = [n \in Nodes |-> NoStyle]
  /\ NoPanes
  /\ pc = "constructing"

\* Library::add_item: library_list.push, then right_column.add_pane.
Library_add_item ==
  LET fs == Append(r_panes, Len(r_panes))
  IN
  /\ container = "Library"
  /\ ~panicked
  /\ pc = "constructing"
  /\ created < MaxItems
  /\ Len(r_panes) < MaxPanes
  /\ created' = created + 1
  /\ dom' = Append(dom, created + 1)
  /\ items' = Append(items, created + 1)
  /\ r_panes' = fs
  /\ IF Len(fs) = 1
       THEN RestartSelect(fs, 0)
       ELSE UNCHANGED << built, calls, r_pane, r_child, parent, scroll,
                         r_index >>
  /\ Note("add_item", Len(items))
  /\ UNCHANGED << pending, active, stepVars, dropdownVars, libraryVars,
                  container, panicked, style >>
  /\ UNCHANGED panesVars
  /\ UNCHANGED widgetVars

\* Variant of Library::select_item: the list item is marked, the pane is not
\* switched.
Library_select_item_list_only(i) ==
  /\ active' = IF i < Len(items) THEN {items[i + 1]} ELSE {}
  /\ UNCHANGED << built, calls, r_pane, r_child, parent, scroll, r_index >>
  /\ UNCHANGED pane_event

\* Library::select_item: deselect_all, then, when the index names an item,
\* the item is marked and the right column selects the index.  A new pane
\* instance has no event yet.
Library_select_item(i) ==
  /\ active' = IF i < Len(items) THEN {items[i + 1]} ELSE {}
  /\ IF i < Len(items)
       THEN RestartSelect(r_panes, i)
       ELSE UNCHANGED << built, calls, r_pane, r_child, parent, scroll,
                         r_index >>
  /\ pane_event' = IF i < Len(items) /\ Some(i) # r_index /\ Get(r_panes, i) # None
                     THEN FALSE
                     ELSE pane_event

\* main(): localStorage is opened (fatal when unavailable), the stored index
\* is selected, and the step loop is spawned.
Library_main ==
  /\ container = "Library"
  /\ pc = "constructing"
  /\ ~panicked
  /\ Len(items) >= 1
  /\ IF ~storage_ok
       THEN /\ panicked' = TRUE
            /\ UNCHANGED << pc, active, pane_event, built, calls, r_pane,
                            r_child, parent, scroll, r_index >>
       ELSE /\ pc' = "idle"
            /\ UNCHANGED panicked
            /\ IF storage = None
                 THEN UNCHANGED << active, pane_event, built, calls, r_pane,
                                   r_child, parent, scroll, r_index >>
                 ELSE Library_select_item(storage[1])
  /\ Note("main", IF storage = None THEN 0 ELSE storage[1])
  /\ UNCHANGED << items, dom, pending, created, reported, dropdownVars,
                  storage, storage_ok, container, style, r_panes >>
  /\ UNCHANGED panesVars
  /\ UNCHANGED widgetVars

\* localStorage starts or stops accepting writes (quota, privacy settings).
StorageChange(ok) ==
  /\ container = "Library"
  /\ ~panicked
  /\ ok # storage_ok
  /\ storage_ok' = ok
  /\ Note("storage_ok", IF ok THEN 1 ELSE 0)
  /\ UNCHANGED << listVars, stepVars, dropdownVars, storage, pane_event,
                  container, panicked >>
  /\ UNCHANGED paneWorld
  /\ UNCHANGED widgetVars

\* The step() of the pane instance shown in the right column has an event.
PaneEvent ==
  /\ container = "Library"
  /\ ~panicked
  /\ pc # "constructing"
  /\ ~pane_event
  /\ r_pane.state < MaxState
  /\ pane_event' = TRUE
  /\ Note("pane_event", 0)
  /\ UNCHANGED << listVars, stepVars, dropdownVars, storage, storage_ok,
                  container, panicked >>
  /\ UNCHANGED paneWorld
  /\ UNCHANGED widgetVars

\* Variant of Library::step: the index is stored, the selection is left to a
\* later step.
Library_step_deferred ==
  /\ container = "Library"
  /\ ~panicked
  /\ pc = "waiting"
  /\ IF pane_event
       THEN /\ r_pane' = [r_pane EXCEPT !.state = @ + 1]
            /\ pane_event' = FALSE
            /\ reported' = [kind |-> "pane", index |-> 0, item |-> 0]
            /\ pc' = "idle"
            /\ Note("step", 0)
            /\ UNCHANGED << pending, active, storage, panicked, built, calls,
                            r_child, parent, scroll, r_index >>
       ELSE \E i \in List_item_click_events :
              /\ reported' = ItemClicked(i)
              /\ pending' = pending \ {items[i + 1]}
              /\ UNCHANGED << active, pane_event, built, calls, r_pane,
                              r_child, parent, scroll, r_index >>
              /\ IF storage_ok
                   THEN /\ storage' = Some(i)
                        /\ pc' = "idle"
                        /\ UNCHANGED panicked
                   ELSE /\ panicked' = TRUE
                        /\ pc' = "aborted"
                        /\ UNCHANGED storage
              /\ Note("step", i)
  /\ UNCHANGED << items, dom, created, dropdownVars, storage_ok, container,
                  style, r_panes >>
  /\ UNCHANGED panesVars
  /\ UNCHANGED widgetVars

\* Library::step resolves (build without the system9 feature, Web view).
\* pane_fut is the first future of the .or(); a list event is followed by
\* select_item and by storage::set_item(..).unwrap_throw().
Library_step ==
  /\ container = "Library"
  /\ ~panicked
  /\ pc = "waiting"
  /\ IF pane_event
       THEN /\ r_pane' = [r_pane EXCEPT !.state = @ + 1]
            /\ pane_event' = FALSE
            /\ reported' = [kind |-> "pane", index |-> 0, item |-> 0]
            /\ pc' = "idle"
            /\ Note("step", 0)
            /\ UNCHANGED << pending, active, storage, panicked, built, calls,
                            r_child, parent, scroll, r_index >>
       ELSE \E i \in List_item_click_events :
              /\ reported' = ItemClicked(i)
              /\ pending' = pending \ {items[i + 1]}
              /\ Library_select_item(i)
              /\ IF storage_ok
                   THEN /\ storage' = Some(i)
                        /\ pc' = "idle"
                        /\ UNCHANGED panicked
                   ELSE /\ panicked' = TRUE
                        /\ pc' = "aborted"
                        /\ UNCHANGED storage
              /\ Note("step", i)
  /\ UNCHANGED << items, dom, created, dropdownVars, storage_ok, container,
                  style, r_panes >>
  /\ UNCHANGED panesVars
  /\ UNCHANGED widgetVars

\* ---- the component programs
\* A component right after its constructor (List::default, TabList::default,
\* ButtonGroup::default, Dropdown::new): no items, no pane container.
ComponentNew ==
  /\ container \in ItemContainers
  /\ NoPanes
  /\ NoRestartPanes
  /\ parent = [n \in Nodes |-> None]
  /\ style = [n \in Nodes |-> NoStyle]
  /\ pc = "idle"
  /\ storage = None
  /\ storage_ok = TRUE

\* What localStorage holds when the page is opened: nothing, or the index a
\* previous session stored (possibly under a longer list of items).
StoredIndices == {None} \cup {Some(i) : i \in 0 .. MaxItems}

InitUI ==
  /\ \/ ComponentNew
     \/ /\ LibraryNew
        /\ storage \in StoredIndices
        /\ storage_ok \in BOOLEAN
  /\ items = << >>
  /\ dom = << >>
  /\ pending = {}
  /\ active = {}
  /\ created = 0
  /\ reported = NoEvent
  /\ toggle_pending = FALSE
  /\ is_open = FALSE
  /\ open = FALSE
  /\ pane_event = FALSE
  /\ cell = << >>
  /\ attrs = << >>
  /\ signals = {}
  /\ scroll = [n \in Nodes |-> 0]
  /\ built = 0
  /\ calls = [k \in 0 .. MaxPanes |-> 0]
  /\ panicked = FALSE
  /\ last = [op |-> "new", arg |-> 0]
  /\ prev = [op |-> "new", arg |-> 0]

NextUI ==
  \/ \E id \in 1 .. MaxItems : Click(id)
  \/ StepCall
  \/ StepDrop
  \/ List_push
  \/ \E k \in IndexArgs : List_insert(k)
  \/ \E k \in IndexArgs : List_remove(k)
  \/ List_step
  \/ ButtonGroup_push
  \/ \E k \in IndexArgs : ButtonGroup_insert(k)
  \/ \E k \in IndexArgs : ButtonGroup_remove(k)
  \/ ButtonGroup_step
  \/ Dropdown_push
  \/ \E k \in IndexArgs : Dropdown_remove(k)
  \/ Dropdown_show
  \/ Dropdown_hide
  \/ Dropdown_toggle
  \/ ToggleClick
  \/ OutsideClick
  \/ Dropdown_step
  \/ TabList_push
  \/ \E k \in IndexArgs : TabList_insert(k)
  \/ TabList_pop
  \/ \E k \in IndexArgs : TabList_remove(k)
  \/ TabList_deselect_all
  \/ \E k \in IndexArgs : TabList_select(k)
  \/ TabList_step
  \/ Library_add_item
  \/ Library_main
  \/ \E ok \in BOOLEAN : StorageChange(ok)
  \/ PaneEvent
  \/ Library_step

SpecUI == InitUI /\ [][NextUI]_vars

\* ------------------------------------------------------------------ widgets
\* The largest number of items a Widget's stream yields.
MaxStream == 2
\* The largest value the seconds counter of PaneRetainLibraryItem reaches.
MaxSeconds == 3

\* What no widget touches: the Dropdown and the Library.
widgetWorld == << dropdownVars, libraryVars, container >>

\* enum Flavor
Flavors ==
  {"Primary", "Secondary", "Success", "Danger", "Warning", "Info", "Light",
   "Dark", "Link"}

\* Flavor::class_name, which Display writes
class_name(f) ==
  CASE f = "Primary" -> "primary"
    [] f = "Secondary" -> "secondary"
    [] f = "Success" -> "success"
    [] f = "Danger" -> "danger"
    [] f = "Warning" -> "warning"
    [] f = "Info" -> "info"
    [] f = "Light" -> "light"
    [] f = "Dark" -> "dark"
    [] f = "Link" -> "link"

\* The texts the owner of a widget sets as title and body.
Texts == {"", "a", "b"}

\* ---- ListItem
\* ItemState::class
ItemState_class(s) ==
  LET base == IF s.flavor # None
                THEN "list-group-item-" \o class_name(s.flavor[1])
                ELSE "list-group-item"
  IN IF s.is_active THEN base \o " active" ELSE base

\* The attribute ListItem::new binds to the state cell: class.
ListItem_bindings(s) == [class |-> ItemState_class(s)]

\* ListItem::new
ListItem_new ==
  /\ container = "ListItem"
  /\ cell = [flavor |-> None, is_active |-> FALSE]
  /\ attrs = ListItem_bindings(cell)
  /\ signals = {}

\* Variant of ListItem::set_flavor: the field is written without running the
\* bound projection again.
ListItem_set_flavor_stale(f) ==
  /\ container = "ListItem"
  /\ cell' = [cell EXCEPT !.flavor = f]
  /\ UNCHANGED attrs
  /\ Note("set_flavor", 0)
  /\ UNCHANGED << signals, listVars, stepVars, panicked >>
  /\ UNCHANGED widgetWorld
  /\ UNCHANGED paneWorld

\* ListItem::set_flavor: Proxy::modify writes the field and runs the bound
\* projection again.
ListItem_set_flavor(f) ==
  /\ container = "ListItem"
  /\ cell' = [cell EXCEPT !.flavor = f]
  /\ attrs' = ListItem_bindings(cell')
  /\ Note("set_flavor", 0)
  /\ UNCHANGED << signals, listVars, stepVars, panicked >>
  /\ UNCHANGED widgetWorld
  /\ UNCHANGED paneWorld

\* ListItem::set_is_active
ListItem_set_is_active(b) ==
  /\ container = "ListItem"
  /\ cell' = [cell EXCEPT !.is_active = b]
  /\ attrs' = ListItem_bindings(cell')
  /\ Note("set_is_active", IF b THEN 1 ELSE 0)
  /\ UNCHANGED << signals, listVars, stepVars, panicked >>
  /\ UNCHANGED widgetWorld
  /\ UNCHANGED paneWorld

\* ---- Badge
\* The attribute Badge::new binds to the state cell: class.
Badge_bindings(s) ==
  [class |->
     "badge text-bg-" \o class_name(s.flavor)
       \o (IF s.pill THEN " rounded-pill" ELSE "")]

\* Badge::new
Badge_new ==
  /\ container = "Badge"
  /\ \E f \in Flavors : cell = [flavor |-> f, pill |-> FALSE]
  /\ attrs = Badge_bindings(cell)
  /\ signals = {}

\* Badge::set_flavor
Badge_set_flavor(f) ==
  /\ container = "Badge"
  /\ cell' = [cell EXCEPT !.flavor = f]
  /\ attrs' = Badge_bindings(cell')
  /\ Note("set_flavor", 0)
  /\ UNCHANGED << signals, listVars, stepVars, panicked >>
  /\ UNCHANGED widgetWorld
  /\ UNCHANGED paneWorld

\* Badge::set_pill
Badge_set_pill(b) ==
  /\ container = "Badge"
  /\ cell' = [cell EXCEPT !.pill = b]
  /\ attrs' = Badge_bindings(cell')
  /\ Note("set_pill", IF b THEN 1 ELSE 0)
  /\ UNCHANGED << signals, listVars, stepVars, panicked >>
  /\ UNCHANGED widgetWorld
  /\ UNCHANGED paneWorld

\* ---- Progress
\* Values of the u8 argument of Progress::new and Progress::set_value.
U8Args == {0, 1, 42, 99, 100, 101, 200, 255}

\* u8::min
Min(a, b) == IF a < b THEN a ELSE b

\* The attributes Progress::new binds to the state cell: aria-valuenow of the
\* wrapper, class and style:width of the bar.
Progress_bindings(s) ==
  [aria_valuenow |-> ToString(s.value),
   class |->
     "progress-bar bg-" \o class_name(s.flavor)
       \o (IF s.striped THEN " progress-bar-striped" ELSE "")
       \o (IF s.animated THEN " progress-bar-animated" ELSE ""),
   width |-> ToString(s.value) \o "%"]

\* Progress::new
Progress_new ==
  /\ container = "Progress"
  /\ \E v \in U8Args, f \in Flavors :
       cell = [value |-> Min(v, 100), flavor |-> f, striped |-> FALSE,
               animated |-> FALSE]
  /\ attrs = Progress_bindings(cell)
  /\ signals = {}

\* Variant of Progress::set_value: the value is stored as given.
Progress_set_value_unclamped(v) ==
  /\ container = "Progress"
  /\ cell' = [cell EXCEPT !.value = v]
  /\ attrs' = Progress_bindings(cell')
  /\ Note("set_value", v)
  /\ UNCHANGED << signals, listVars, stepVars, panicked >>
  /\ UNCHANGED widgetWorld
  /\ UNCHANGED paneWorld

\* Progress::set_value
Progress_set_value(v) ==
  /\ container = "Progress"
  /\ cell' = [cell EXCEPT !.value = Min(v, 100)]
  /\ attrs' = Progress_bindings(cell')
  /\ Note("set_value", v)
  /\ UNCHANGED << signals, listVars, stepVars, panicked >>
  /\ UNCHANGED widgetWorld
  /\ UNCHANGED paneWorld

\* Progress::set_flavor
Progress_set_flavor(f) ==
  /\ container = "Progress"
  /\ cell' = [cell EXCEPT !.flavor = f]
  /\ attrs' = Progress_bindings(cell')
  /\ Note("set_flavor", 0)
  /\ UNCHANGED << signals, listVars, stepVars, panicked >>
  /\ UNCHANGED widgetWorld
  /\ UNCHANGED paneWorld

\* Progress::set_striped
Progress_set_striped(b) ==
  /\ container = "Progress"
  /\ cell' = [cell EXCEPT !.striped = b]
  /\ attrs' = Progress_bindings(cell')
  /\ Note("set_striped", IF b THEN 1 ELSE 0)
  /\ UNCHANGED << signals, listVars, stepVars, panicked >>
  /\ UNCHANGED widgetWorld
  /\ UNCHANGED paneWorld

\* Progress::set_animated: animation implies stripes.
Progress_set_animated(b) ==
  /\ container = "Progress"
  /\ cell' = [cell EXCEPT !.animated = b,
                          !.striped = IF b THEN TRUE ELSE @]
  /\ attrs' = Progress_bindings(cell')
  /\ Note("set_animated", IF b THEN 1 ELSE 0)
  /\ UNCHANGED << signals, listVars, stepVars, panicked >>
  /\ UNCHANGED widgetWorld
  /\ UNCHANGED paneWorld

\* ---- Toast
\* The attributes and texts Toast::new binds: the class of the toast (from
\* visible), the class of the header (from flavor), the title and body texts.
Toast_bindings(s, title, body) ==
  [class |-> IF s.visible THEN "toast show" ELSE "toast",
   header_class |-> "toast-header text-bg-" \o class_name(s.flavor),
   title |-> title,
   body |-> body]

\* Toast::new: initially hidden.
Toast_new ==
  /\ container = "Toast"
  /\ \E f \in Flavors : cell = [flavor |-> f, visible |-> FALSE]
  /\ \E t \in Texts, b \in Texts : attrs = Toast_bindings(cell, t, b)
  /\ signals = {}

\* Toast::set_title
Toast_set_title(t) ==
  /\ container = "Toast"
  /\ attrs' = [attrs EXCEPT !.title = t]
  /\ Note("set_title", 0)
  /\ UNCHANGED << cell, signals, listVars, stepVars, panicked >>
  /\ UNCHANGED widgetWorld
  /\ UNCHANGED paneWorld

\* Toast::set_body
Toast_set_body(t) ==
  /\ container = "Toast"
  /\ attrs' = [attrs EXCEPT !.body = t]
  /\ Note("set_body", 0)
  /\ UNCHANGED << cell, signals, listVars, stepVars, panicked >>
  /\ UNCHANGED widgetWorld
  /\ UNCHANGED paneWorld

\* Toast::set_flavor
Toast_set_flavor(f) ==
  /\ container = "Toast"
  /\ cell' = [cell EXCEPT !.flavor = f]
  /\ attrs' = Toast_bindings(cell', attrs.title, attrs.body)
  /\ Note("set_flavor", 0)
  /\ UNCHANGED << signals, listVars, stepVars, panicked >>
  /\ UNCHANGED widgetWorld
  /\ UNCHANGED paneWorld

\* Toast::show
Toast_show ==
  /\ container = "Toast"
  /\ cell' = [cell EXCEPT !.visible = TRUE]
  /\ attrs' = Toast_bindings(cell', attrs.title, attrs.body)
  /\ Note("show", 0)
  /\ UNCHANGED << signals, listVars, stepVars, panicked >>
  /\ UNCHANGED widgetWorld
  /\ UNCHANGED paneWorld

\* Toast::hide
Toast_hide ==
  /\ container = "Toast"
  /\ cell' = [cell EXCEPT !.visible = FALSE]
  /\ attrs' = Toast_bindings(cell', attrs.title, attrs.body)
  /\ Note("hide", 0)
  /\ UNCHANGED << signals, listVars, stepVars, panicked >>
  /\ UNCHANGED widgetWorld
  /\ UNCHANGED paneWorld

\* The close button of the toast is clicked; the listener close_click buffers
\* the event.
Toast_close_click ==
  /\ container = "Toast"
  /\ signals' = signals \cup {"close"}
  /\ Note("click", 0)
  /\ UNCHANGED << cell, attrs, listVars, stepVars, panicked >>
  /\ UNCHANGED widgetWorld
  /\ UNCHANGED paneWorld

\* Variant of Toast::step: the toast hides itself when it reports Closed.
Toast_step_dismissing ==
  /\ container = "Toast"
  /\ "close" \in signals
  /\ signals' = signals \ {"close"}
  /\ reported' = [kind |-> "closed", index |-> 0, item |-> 0]
  /\ cell' = [cell EXCEPT !.visible = FALSE]
  /\ attrs' = Toast_bindings(cell', attrs.title, attrs.body)
  /\ Note("step", 0)
  /\ UNCHANGED << listVars, pc, panicked >>
  /\ UNCHANGED widgetWorld
  /\ UNCHANGED paneWorld

\* Toast::step, called and resolved: close_click.next() takes the buffered
\* click and the step reports Closed.
Toast_step ==
  /\ container = "Toast"
  /\ "close" \in signals
  /\ signals' = signals \ {"close"}
  /\ reported' = [kind |-> "closed", index |-> 0, item |-> 0]
  /\ Note("step", 0)
  /\ UNCHANGED << cell, attrs, listVars, pc, panicked >>
  /\ UNCHANGED widgetWorld
  /\ UNCHANGED paneWorld

\* ---- Modal
\* The attributes Modal::new binds to the visible cell (class and
\* style:display of the backdrop and of the modal) and the title text and
\* body child it sets.
Modal_bindings(visible, title, body) ==
  [backdrop_class |->
     IF visible THEN "modal-backdrop fade show" ELSE "modal-backdrop fade",
   backdrop_display |-> IF visible THEN "block" ELSE "none",
   modal_class |-> IF visible THEN "modal fade show" ELSE "modal fade",
   modal_display |-> IF visible THEN "block" ELSE "none",
   title |-> title,
   body |-> body]

\* Modal::new: initially hidden, the body an empty placeholder.
Modal_new ==
  /\ container = "Modal"
  /\ cell = [visible |-> FALSE]
  /\ \E t \in Texts : attrs = Modal_bindings(FALSE, t, "")
  /\ signals = {}

\* Modal::set_title
Modal_set_title(t) ==
  /\ container = "Modal"
  /\ attrs' = [attrs EXCEPT !.title = t]
  /\ Note("set_title", 0)
  /\ UNCHANGED << cell, signals, listVars, stepVars, panicked >>
  /\ UNCHANGED widgetWorld
  /\ UNCHANGED paneWorld

\* Modal::set_body: body_child.replace
Modal_set_body(b) ==
  /\ container = "Modal"
  /\ attrs' = [attrs EXCEPT !.body = b]
  /\ Note("set_body", 0)
  /\ UNCHANGED << cell, signals, listVars, stepVars, panicked >>
  /\ UNCHANGED widgetWorld
  /\ UNCHANGED paneWorld

\* Modal::show
Modal_show ==
  /\ container = "Modal"
  /\ cell' = [visible |-> TRUE]
  /\ attrs' = Modal_bindings(TRUE, attrs.title, attrs.body)
  /\ Note("show", 0)
  /\ UNCHANGED << signals, listVars, stepVars, panicked >>
  /\ UNCHANGED widgetWorld
  /\ UNCHANGED paneWorld

\* Modal::hide
Modal_hide ==
  /\ container = "Modal"
  /\ cell' = [visible |-> FALSE]
  /\ attrs' = Modal_bindings(FALSE, attrs.title, attrs.body)
  /\ Note("hide", 0)
  /\ UNCHANGED << signals, listVars, stepVars, panicked >>
  /\ UNCHANGED widgetWorld
  /\ UNCHANGED paneWorld

\* The user clicks the close button ("close") or the backdrop ("backdrop") of
\* a modal that is displayed; the listener buffers the event.
Modal_click(target) ==
  /\ container = "Modal"
  /\ attrs.modal_display = "block"
  /\ attrs.backdrop_display = "block"
  /\ signals' = signals \cup {target}
  /\ Note("click", 0)
  /\ UNCHANGED << cell, attrs, listVars, stepVars, panicked >>
  /\ UNCHANGED widgetWorld
  /\ UNCHANGED paneWorld

\* close_click.next().or(backdrop_click.next()): the first of the two, in
\* this order, that holds an event.
Modal_step_source(ready) ==
  IF "close" \in ready THEN {"close"}
  ELSE IF "backdrop" \in ready THEN {"backdrop"}
  ELSE {}

\* Variant of Modal::step: only the close button is awaited.
Modal_step_close_only ==
  /\ container = "Modal"
  /\ "close" \in signals
  /\ signals' = signals \ {"close"}
  /\ reported' = [kind |-> "closed", index |-> 0, item |-> 0]
  /\ Note("step", 0)
  /\ UNCHANGED << cell, attrs, listVars, pc, panicked >>
  /\ UNCHANGED widgetWorld
  /\ UNCHANGED paneWorld

\* Modal::step, called and resolved: the winning listener gives up its click
\* and the step reports Closed.
Modal_step ==
  /\ container = "Modal"
  /\ \E s \in Modal_step_source(signals) :
       signals' = signals \ {s}
  /\ reported' = [kind |-> "closed", index |-> 0, item |-> 0]
  /\ Note("step", 0)
  /\ UNCHANGED << cell, attrs, listVars, pc, panicked >>
  /\ UNCHANGED widgetWorld
  /\ UNCHANGED paneWorld

\* ---- Widget
\* Widget::new over a stream that has yielded nothing yet: queue holds the
\* items the stream has ready, ended says that no item follows them, finished
\* that next() has returned None.
Widget_new ==
  /\ container = "Widget"
  /\ cell = [queue |-> << >>, yielded |-> 0, ended |-> FALSE,
             finished |-> FALSE]
  /\ attrs = << >>
  /\ signals = {}

\* The stream gets its next item ready.
Stream_yield ==
  /\ container = "Widget"
  /\ ~panicked
  /\ ~cell.ended
  /\ cell.yielded < MaxStream
  /\ cell' = [cell EXCEPT !.queue = Append(@, cell.yielded + 1),
                          !.yielded = @ + 1]
  /\ Note("yield", cell.yielded + 1)
  /\ UNCHANGED << attrs, signals, listVars, stepVars, panicked >>
  /\ UNCHANGED widgetWorld
  /\ UNCHANGED paneWorld

\* The stream ends: after the items it has ready it yields None.
Stream_end ==
  /\ container = "Widget"
  /\ ~panicked
  /\ ~cell.ended
  /\ cell' = [cell EXCEPT !.ended = TRUE]
  /\ Note("end", 0)
  /\ UNCHANGED << attrs, signals, listVars, stepVars, panicked >>
  /\ UNCHANGED widgetWorld
  /\ UNCHANGED paneWorld

\* Widget::step is called and polled: self.stream.next() polls the stream.
\* Stream::poll_next leaves open what a stream does when it is polled after
\* it returned None: it returns None again (a fused stream; the step goes to
\* pending()) or it panics (stream::unfold).
Widget_step_call ==
  /\ container = "Widget"
  /\ ~panicked
  /\ pc = "idle"
  /\ IF cell.finished
       THEN /\ \/ pc' = "pending" /\ UNCHANGED panicked
               \/ panicked' = TRUE /\ UNCHANGED pc
            /\ Note("poll_finished", 0)
       ELSE /\ pc' = "waiting"
            /\ UNCHANGED panicked
            /\ Note("step_call", 0)
  /\ UNCHANGED << cell, attrs, signals, listVars, reported >>
  /\ UNCHANGED widgetWorld
  /\ UNCHANGED paneWorld

\* Widget::step resolves: next() returned Some(t).
Widget_step ==
  /\ container = "Widget"
  /\ ~panicked
  /\ pc = "waiting"
  /\ cell.queue # << >>
  /\ reported' = [kind |-> "item", index |-> 0, item |-> Head(cell.queue)]
  /\ cell' = [cell EXCEPT !.queue = Tail(@)]
  /\ pc' = "idle"
  /\ Note("step", 0)
  /\ UNCHANGED << attrs, signals, listVars, panicked >>
  /\ UNCHANGED widgetWorld
  /\ UNCHANGED paneWorld

\* Widget::step, else arm: next() returned None and the step awaits
\* std::future::pending().
Widget_step_pending ==
  /\ container = "Widget"
  /\ ~panicked
  /\ pc = "waiting"
  /\ cell.queue = << >>
  /\ cell.ended
  /\ cell' = [cell EXCEPT !.finished = TRUE]
  /\ pc' = "pending"
  /\ Note("stream_none", 0)
  /\ UNCHANGED << attrs, signals, listVars, reported, panicked >>
  /\ UNCHANGED widgetWorld
  /\ UNCHANGED paneWorld

\* The step() future of the widget is dropped: the other side of a race won.
Widget_step_drop ==
  /\ container = "Widget"
  /\ ~panicked
  /\ pc \in {"waiting", "pending"}
  /\ pc' = "idle"
  /\ Note("drop", 0)
  /\ UNCHANGED << cell, attrs, signals, listVars, reported, panicked >>
  /\ UNCHANGED widgetWorld
  /\ UNCHANGED paneWorld

\* ---- PaneRetainLibraryItem
\* format!("{} seconds elapsed", seconds)
TimerText(n) == ToString(n) \o " seconds elapsed"

\* The DOM after Panes::new_retained and k calls of Panes::add_pane.
RECURSIVE RetainedParent(_)
RetainedParent(k) ==
  IF k = 0
    THEN AppendChild(
           AppendChild([n \in Nodes |-> None], DefaultSlotNode,
                       DefaultPaneNode),
           Wrapper, DefaultSlotNode)
    ELSE AppendChild(
           AppendChild(RetainedParent(k - 1), SlotNode(k), PaneNode(k)),
           Wrapper, SlotNode(k))

RECURSIVE RetainedStyle(_)
RetainedStyle(k) ==
  IF k = 0
    THEN SetStyle(
           SetStyle([n \in Nodes |-> NoStyle], Wrapper, "display", "flex"),
           Wrapper, "flex-direction", "column")
    ELSE SetStyle(
           SetStyle(
             SetStyle(RetainedStyle(k - 1), SlotNode(k), "display", "none"),
             SlotNode(k), "flex", "1"),
           SlotNode(k), "min-height", "0")

\* PaneRetainLibraryItem::default: three tabs, three retained panes, the
\* first one selected, the timer at zero.
PaneRetain_default ==
  /\ container = "PaneRetain"
  /\ items = << 1, 2, 3 >>
  /\ dom = << 1, 2, 3 >>
  /\ created = 3
  /\ pending = {}
  /\ active = TabList_select_in(items, 0)
  /\ mode = "Retain"
  /\ panes = << PaneNode(1), PaneNode(2), PaneNode(3) >>
  /\ slots = << SlotNode(1), SlotNode(2), SlotNode(3) >>
  /\ default_slot = Some(DefaultSlotNode)
  /\ default_pane = DefaultPaneNode
  /\ child = Placeholder
  /\ index = Some(0)
  /\ parent = RetainedParent(3)
  /\ style =
       RemoveStyle(
         SetStyle(RetainedStyle(3), DefaultSlotNode, "display", "none"),
         SlotNode(1), "display")
  /\ cell = [seconds |-> 0]
  /\ attrs = [timer_text |-> TimerText(0)]
  /\ signals = {}

\* A tab of the item is clicked; its listener buffers the event.
PaneRetain_click(id) ==
  /\ container = "PaneRetain"
  /\ IsChild(dom, id)
  /\ pending' = pending \cup {id}
  /\ Note("click", id)
  /\ UNCHANGED << items, dom, active, created, stepVars, widgetVars,
                  panicked >>
  /\ UNCHANGED widgetWorld
  /\ UNCHANGED paneWorld

\* PaneRetainLibraryItem::step is called and polled: a new timer of 1000 ms
\* starts.
PaneRetain_step_call ==
  /\ container = "PaneRetain"
  /\ pc = "idle"
  /\ pc' = "waiting"
  /\ signals' = {}
  /\ Note("step_call", 0)
  /\ UNCHANGED << listVars, reported, cell, attrs, panicked >>
  /\ UNCHANGED widgetWorld
  /\ UNCHANGED paneWorld

\* The 1000 ms of the timer of the pending step elapse.
TimerElapses ==
  /\ container = "PaneRetain"
  /\ pc = "waiting"
  /\ cell.seconds < MaxSeconds
  /\ signals' = {"timer"}
  /\ Note("elapse", 0)
  /\ UNCHANGED << listVars, stepVars, cell, attrs, panicked >>
  /\ UNCHANGED widgetWorld
  /\ UNCHANGED paneWorld

\* The pending step() future of the item is dropped, and its timer with it.
PaneRetain_step_drop ==
  /\ container = "PaneRetain"
  /\ pc = "waiting"
  /\ pc' = "idle"
  /\ signals' = {}
  /\ Note("drop", 0)
  /\ UNCHANGED << listVars, reported, cell, attrs, panicked >>
  /\ UNCHANGED widgetWorld
  /\ UNCHANGED paneWorld

\* PaneRetainLibraryItem::select: list.select, then panes.select.
PaneRetain_select(i) ==
  /\ active' = TabList_select_in(items, i)
  /\ IF Some(i) # index
       THEN SelectRetain(i)
       ELSE UNCHANGED << index, child, parent, scroll, style, panicked >>

\* Variant of PaneRetainLibraryItem::step: the timer counts only while the
\* timer pane is the selected one.
PaneRetain_step_visible_only ==
  /\ container = "PaneRetain"
  /\ pc = "waiting"
  /\ IF "timer" \in signals
       THEN /\ cell' = [seconds |->
                          IF index = Some(2) THEN cell.seconds + 1
                          ELSE cell.seconds]
            /\ attrs' = [timer_text |-> TimerText(cell'.seconds)]
            /\ reported' = NoEvent
            /\ Note("step", 0)
            /\ UNCHANGED << pending, active, index, child, parent, scroll,
                            style, panicked >>
       ELSE \E i \in TabList_item_events :
              /\ reported' = ItemClicked(i)
              /\ pending' = pending \ {items[i + 1]}
              /\ PaneRetain_select(i)
              /\ Note("step", i + 1)
              /\ UNCHANGED << cell, attrs >>
  /\ pc' = "idle"
  /\ signals' = {}
  /\ UNCHANGED << items, dom, created >>
  /\ UNCHANGED widgetWorld
  /\ UNCHANGED << mode, slots, default_slot, default_pane, panes, restartVars >>

\* PaneRetainLibraryItem::step resolves and handles the outcome:
\* timer_fut.or(list_fut) gives the timer when it has elapsed, else the
\* clicked tab.
PaneRetain_step ==
  /\ container = "PaneRetain"
  /\ pc = "waiting"
  /\ IF "timer" \in signals
       THEN /\ cell' = [seconds |-> cell.seconds + 1]
            /\ attrs' = [timer_text |-> TimerText(cell'.seconds)]
            /\ reported' = NoEvent
            /\ Note("step", 0)
            /\ UNCHANGED << pending, active, index, child, parent, scroll,
                            style, panicked >>
       ELSE \E i \in TabList_item_events :
              /\ reported' = ItemClicked(i)
              /\ pending' = pending \ {items[i + 1]}
              /\ PaneRetain_select(i)
              /\ Note("step", i + 1)
              /\ UNCHANGED << cell, attrs >>
  /\ pc' = "idle"
  /\ signals' = {}
  /\ UNCHANGED << items, dom, created >>
  /\ UNCHANGED widgetWorld
  /\ UNCHANGED << mode, slots, default_slot, default_pane, panes, restartVars >>

\* ---- ListLibraryItem
\* The largest number of items the Add button adds in one behaviour.
MaxAdded == 2

\* The labels ListLibraryItem::default pushes: "Apple", "Banana", "Cherry".
InitialLabels == 3

\* ListLibraryItem::default: three items, nothing selected.
ListLibrary_default ==
  /\ container = "ListLibraryItem"
  /\ items = [j \in 1 .. InitialLabels |-> j]
  /\ dom = [j \in 1 .. InitialLabels |-> j]
  /\ created = InitialLabels
  /\ pending = {}
  /\ active = {}
  /\ cell = [selected |-> None, count |-> InitialLabels]
  /\ attrs = << >>
  /\ signals = {}

\* An item of the list is clicked; its listener buffers the event.
ListLibrary_click(id) ==
  /\ container = "ListLibraryItem"
  /\ ~panicked
  /\ IsChild(dom, id)
  /\ pending' = pending \cup {id}
  /\ Note("click", 0)
  /\ UNCHANGED << items, dom, active, created, stepVars, widgetVars,
                  panicked >>
  /\ UNCHANGED widgetWorld
  /\ UNCHANGED paneWorld

\* The "Add item" ("add") or "Remove selected" ("remove") button is clicked;
\* add_click / remove_click buffers the event.
ListLibrary_button_click(b) ==
  /\ container = "ListLibraryItem"
  /\ ~panicked
  /\ b = "add" => cell.count < InitialLabels + MaxAdded
  /\ signals' = signals \cup {b}
  /\ Note("button", 0)
  /\ UNCHANGED << cell, attrs, listVars, stepVars, panicked >>
  /\ UNCHANGED widgetWorld
  /\ UNCHANGED paneWorld

\* ListLibraryItem::step is called and polled.
ListLibrary_step_call ==
  /\ container = "ListLibraryItem"
  /\ ~panicked
  /\ pc = "idle"
  /\ pc' = "waiting"
  /\ Note("step_call", 0)
  /\ UNCHANGED << listVars, reported, widgetVars, panicked >>
  /\ UNCHANGED widgetWorld
  /\ UNCHANGED paneWorld

\* The pending step() future of the item is dropped.
ListLibrary_step_drop ==
  /\ container = "ListLibraryItem"
  /\ ~panicked
  /\ pc = "waiting"
  /\ pc' = "idle"
  /\ Note("drop", 0)
  /\ UNCHANGED << listVars, reported, widgetVars, panicked >>
  /\ UNCHANGED widgetWorld
  /\ UNCHANGED paneWorld

\* ListAction::ItemClicked arm: the item selected before is deactivated, the
\* clicked one activated and remembered.
ListLibrary_item_clicked(i) ==
  LET before == IF cell.selected # None /\ cell.selected[1] < Len(items)
                  THEN {items[cell.selected[1] + 1]}
                  ELSE {}
  IN
  /\ reported' = ItemClicked(i)
  /\ pending' = pending \ {items[i + 1]}
  /\ active' = (active \ before) \cup {items[i + 1]}
  /\ cell' = [cell EXCEPT !.selected = Some(i)]
  /\ UNCHANGED << items, dom, created, signals, panicked >>

\* ListAction::Add arm: count += 1 and List::push of "Item {count}".
ListLibrary_add ==
  /\ reported' = [kind |-> "add", index |-> 0, item |-> 0]
  /\ signals' = signals \ {"add"}
  /\ cell' = [cell EXCEPT !.count = @ + 1]
  /\ created' = cell.count + 1
  /\ items' = Append(items, cell.count + 1)
  /\ dom' = Append(dom, cell.count + 1)
  /\ UNCHANGED << pending, active, panicked >>

\* List::remove(k) on the list of the item, for k < len.
ListLibrary_list_remove(k) ==
  /\ items' = VecRemove(items, k)
  /\ pending' = pending \ {items[k + 1]}
  /\ active' = active \ {items[k + 1]}
  /\ IF IsChild(dom, items[k + 1])
       THEN /\ dom' = RemoveChild(dom, items[k + 1])
            /\ UNCHANGED panicked
       ELSE /\ UNCHANGED dom
            /\ panicked' \in BOOLEAN

\* Variant of the ListAction::Remove arm: selected is read, not taken.
ListLibrary_remove_keeping ==
  /\ reported' = [kind |-> "remove", index |-> 0, item |-> 0]
  /\ signals' = signals \ {"remove"}
  /\ UNCHANGED cell
  /\ IF cell.selected # None /\ cell.selected[1] < Len(items)
       THEN ListLibrary_list_remove(cell.selected[1])
       ELSE UNCHANGED << items, dom, pending, active, panicked >>
  /\ UNCHANGED created

\* ListAction::Remove arm: selected.take(), and List::remove of that index
\* when it is below the length.
ListLibrary_remove ==
  /\ reported' = [kind |-> "remove", index |-> 0, item |-> 0]
  /\ signals' = signals \ {"remove"}
  /\ cell' = [cell EXCEPT !.selected = None]
  /\ IF cell.selected # None /\ cell.selected[1] < Len(items)
       THEN ListLibrary_list_remove(cell.selected[1])
       ELSE UNCHANGED << items, dom, pending, active, panicked >>
  /\ UNCHANGED created

\* ListLibraryItem::step resolves and handles the action:
\* list.step().or(add_click.next()).or(remove_click.next()).
ListLibrary_step ==
  /\ container = "ListLibraryItem"
  /\ ~panicked
  /\ pc = "waiting"
  /\ IF List_item_click_events # {}
       THEN \E i \in List_item_click_events : ListLibrary_item_clicked(i)
       ELSE IF "add" \in signals
         THEN ListLibrary_add
         ELSE /\ "remove" \in signals
              /\ ListLibrary_remove
  /\ pc' = "idle"
  /\ Note("step", 0)
  /\ UNCHANGED attrs
  /\ UNCHANGED widgetWorld
  /\ UNCHANGED paneWorld

\* ---- ButtonGroupLibraryItem
\* The largest number of buttons the "Add button" control adds in one
\* behaviour.
MaxButtons == 1

\* SIZE_LABELS
SIZE_LABELS == << "Small", "Default", "Large" >>

\* ButtonGroupLibraryItem::default: three subject buttons, the four control
\* buttons "Add button", "Remove last", "Cycle size", "Toggle vertical".
ButtonGroupLibrary_default ==
  /\ container = "ButtonGroupLibraryItem"
  /\ items = << 1, 2, 3 >>
  /\ dom = << 1, 2, 3 >>
  /\ created = 3
  /\ pending = {}
  /\ active = {}
  /\ cell = [controls |-> << 1, 2, 3, 4 >>, size_index |-> 1,
             is_vertical |-> FALSE, count |-> 3]
  /\ attrs = [status |-> "Click a button in the group"]
  /\ signals = {}

\* A button of the subject group is clicked; its listener buffers the event.
ButtonGroupLibrary_subject_click(id) ==
  /\ container = "ButtonGroupLibraryItem"
  /\ ~panicked
  /\ IsChild(dom, id)
  /\ pending' = pending \cup {id}
  /\ Note("click", 0)
  /\ UNCHANGED << items, dom, active, created, stepVars, widgetVars,
                  panicked >>
  /\ UNCHANGED widgetWorld
  /\ UNCHANGED paneWorld

\* A button of the controls group is clicked; its listener buffers the event.
ButtonGroupLibrary_control_click(c) ==
  /\ container = "ButtonGroupLibraryItem"
  /\ ~panicked
  /\ IsChild(cell.controls, c)
  /\ c = 1 => cell.count < InitialLabels + MaxButtons
  /\ signals' = signals \cup {c}
  /\ Note("control_click", 0)
  /\ UNCHANGED << cell, attrs, listVars, stepVars, panicked >>
  /\ UNCHANGED widgetWorld
  /\ UNCHANGED paneWorld

\* ButtonGroupLibraryItem::step is called and polled.
ButtonGroupLibrary_step_call ==
  /\ container = "ButtonGroupLibraryItem"
  /\ ~panicked
  /\ pc = "idle"
  /\ pc' = "waiting"
  /\ Note("step_call", 0)
  /\ UNCHANGED << listVars, reported, widgetVars, panicked >>
  /\ UNCHANGED widgetWorld
  /\ UNCHANGED paneWorld

\* The pending step() future of the item is dropped.
ButtonGroupLibrary_step_drop ==
  /\ container = "ButtonGroupLibraryItem"
  /\ ~panicked
  /\ pc = "waiting"
  /\ pc' = "idle"
  /\ Note("drop", 0)
  /\ UNCHANGED << listVars, reported, widgetVars, panicked >>
  /\ UNCHANGED widgetWorld
  /\ UNCHANGED paneWorld

\* controls_group.step(): the indices, in the vector of control buttons, the
\* race can resolve to.
ButtonGroupLibrary_control_events ==
  race_all({i \in 0 .. Len(cell.controls) - 1 : cell.controls[i + 1] \in signals})

\* Group::Subject arm: the status text names the index.
ButtonGroupLibrary_subject(i) ==
  /\ reported' = [kind |-> "subject", index |-> i, item |-> items[i + 1]]
  /\ pending' = pending \ {items[i + 1]}
  /\ attrs' = [status |-> "Clicked button at index " \o ToString(i)]
  /\ UNCHANGED << items, dom, created, cell, signals, panicked >>

\* Variant of control arm 0: the new button is pushed to the controls group.
ButtonGroupLibrary_add_to_controls ==
  /\ cell' = [cell EXCEPT !.count = @ + 1,
                          !.controls = Append(@, Len(@) + 1)]
  /\ attrs' =
       [status |-> "Added button " \o ToString(cell.count + 1)
                     \o " (total: " \o ToString(Len(items)) \o ")"]
  /\ UNCHANGED << items, dom, created, pending, panicked >>

\* Control arm 0 ("Add button"): count += 1 and subject_group.push.
ButtonGroupLibrary_add ==
  /\ cell' = [cell EXCEPT !.count = @ + 1]
  /\ created' = cell.count + 1
  /\ items' = Append(items, cell.count + 1)
  /\ dom' = Append(dom, cell.count + 1)
  /\ attrs' =
       [status |-> "Added button " \o ToString(cell.count + 1)
                     \o " (total: " \o ToString(Len(items) + 1) \o ")"]
  /\ UNCHANGED << pending, panicked >>

\* Control arm 1 ("Remove last"): ButtonGroup::remove(len - 1) on a group that
\* is not empty.
ButtonGroupLibrary_remove_last ==
  IF items # << >>
    THEN LET it == items[Len(items)]
         IN
         /\ items' = VecRemove(items, Len(items) - 1)
         /\ pending' = pending \ {it}
         /\ IF IsChild(dom, it)
              THEN /\ dom' = RemoveChild(dom, it)
                   /\ UNCHANGED panicked
              ELSE /\ UNCHANGED dom
                   /\ panicked' \in BOOLEAN
         /\ attrs' =
              [status |-> "Removed last button (total: "
                            \o ToString(Len(items) - 1) \o ")"]
         /\ UNCHANGED << created, cell >>
    ELSE /\ attrs' = [status |-> "No buttons to remove"]
         /\ UNCHANGED << items, dom, pending, created, cell, panicked >>

\* Control arm 2 ("Cycle size")
ButtonGroupLibrary_cycle_size ==
  /\ cell' = [cell EXCEPT !.size_index = (@ + 1) % Len(SIZE_LABELS)]
  /\ attrs' = [status |-> "Size: " \o SIZE_LABELS[cell'.size_index + 1]]
  /\ UNCHANGED << items, dom, pending, created, panicked >>

\* Control arm 3 ("Toggle vertical")
ButtonGroupLibrary_toggle_vertical ==
  /\ cell' = [cell EXCEPT !.is_vertical = ~@]
  /\ attrs' =
       [status |-> IF cell'.is_vertical THEN "Orientation: vertical"
                   ELSE "Orientation: horizontal"]
  /\ UNCHANGED << items, dom, pending, created, panicked >>

\* Group::Control arm: match ev.index, with unreachable!() for an index
\* beyond 3.
ButtonGroupLibrary_control(i) ==
  /\ reported' = [kind |-> "control", index |-> i, item |-> 0]
  /\ signals' = signals \ {cell.controls[i + 1]}
  /\ CASE i = 0 -> ButtonGroupLibrary_add
       [] i = 1 -> ButtonGroupLibrary_remove_last
       [] i = 2 -> ButtonGroupLibrary_cycle_size
       [] i = 3 -> ButtonGroupLibrary_toggle_vertical
       [] OTHER -> /\ panicked' = TRUE
                   /\ UNCHANGED << items, dom, pending, created, cell, attrs >>

\* ButtonGroupLibraryItem::step resolves and handles the event:
\* control.or(subject).
ButtonGroupLibrary_step ==
  /\ container = "ButtonGroupLibraryItem"
  /\ ~panicked
  /\ pc = "waiting"
  /\ IF ButtonGroupLibrary_control_events # {}
       THEN \E i \in ButtonGroupLibrary_control_events :
              ButtonGroupLibrary_control(i)
       ELSE \E i \in ButtonGroup_item_click_events :
              ButtonGroupLibrary_subject(i)
  /\ pc' = "idle"
  /\ Note("step", 0)
  /\ UNCHANGED active
  /\ UNCHANGED widgetWorld
  /\ UNCHANGED paneWorld

\* ---- ButtonLibraryItem
\* The largest number of clicks on the button of ButtonLibraryItem.
MaxClicks == 2

\* The class Button::new binds to the flavor cell, and the text.
Button_bindings(s) ==
  [class |->
     "btn btn-" \o class_name(IF s.flavor # None THEN s.flavor[1]
                              ELSE "Secondary"),
   text |-> s.text]

\* ButtonLibraryItem::default: a primary button that says "0 clicks".
ButtonLibrary_default ==
  /\ container = "ButtonLibraryItem"
  /\ cell = [clicks |-> 0, flavor |-> Some("Primary"), text |-> "0 clicks"]
  /\ attrs = Button_bindings(cell)
  /\ signals = {}

\* The button ("button") or one of the links "Change to primary" ("primary")
\* and "Change to warning" ("warning") is clicked; the listener buffers the
\* event.
ButtonLibrary_click(target) ==
  /\ container = "ButtonLibraryItem"
  /\ ~panicked
  /\ target = "button" => cell.clicks < MaxClicks
  /\ signals' = signals \cup {target}
  /\ Note("click", 0)
  /\ UNCHANGED << cell, attrs, listVars, stepVars, panicked >>
  /\ UNCHANGED widgetWorld
  /\ UNCHANGED paneWorld

\* flavor_changes.next(): the closure of stream::unfold awaits
\* prim.next().or(warn.next()) and returns Some((flav, state)), so the stream
\* yields Some(flav); from is the listener that gave up its click.
flavor_changes_next(ready) ==
  IF "primary" \in ready
    THEN {[item |-> Some("Primary"), from |-> "primary"]}
  ELSE IF "warning" \in ready
    THEN {[item |-> Some("Warning"), from |-> "warning"]}
  ELSE {}

\* ButtonLibraryItem::step, called and resolved:
\* button.step().map(Ok).or(flavor_changes.next().map(Err)), with
\* unreachable!() for Err(None).
ButtonLibrary_step ==
  /\ container = "ButtonLibraryItem"
  /\ ~panicked
  /\ IF "button" \in signals
       THEN /\ signals' = signals \ {"button"}
            /\ reported' = [kind |-> "click", index |-> 0, item |-> 0]
            /\ cell' = [cell EXCEPT
                          !.clicks = @ + 1,
                          !.text = IF cell.clicks + 1 = 1 THEN "1 click"
                                   ELSE ToString(cell.clicks + 1) \o " clicks"]
            /\ attrs' = Button_bindings(cell')
            /\ UNCHANGED panicked
       ELSE \E r \in flavor_changes_next(signals) :
              /\ signals' = signals \ {r.from}
              /\ reported' = [kind |-> "flavor", index |-> 0, item |-> 0]
              /\ IF r.item # None
                   THEN /\ cell' = [cell EXCEPT !.flavor = Some(r.item[1])]
                        /\ attrs' = Button_bindings(cell')
                        /\ UNCHANGED panicked
                   ELSE /\ panicked' = TRUE
                        /\ UNCHANGED << cell, attrs >>
  /\ Note("step", 0)
  /\ UNCHANGED << listVars, pc >>
  /\ UNCHANGED widgetWorld
  /\ UNCHANGED paneWorld

\* ---- program
\* The widgets that own no item list and no pane container.
PlainWidgets == {"ListItem", "Badge", "Progress", "Toast", "Modal", "Widget"}

\* The fields of the item list and the pane container of a plain widget.
PlainWidgetNew ==
  /\ container \in PlainWidgets
  /\ items = << >>
  /\ dom = << >>
  /\ pending = {}
  /\ active = {}
  /\ created = 0
  /\ NoPanes
  /\ parent = [n \in Nodes |-> None]
  /\ style = [n \in Nodes |-> NoStyle]
  /\ \/ ListItem_new
     \/ Badge_new
     \/ Progress_new
     \/ Toast_new
     \/ Modal_new
     \/ Widget_new

InitWidget ==
  /\ \/ PlainWidgetNew
     \/ PaneRetain_default
  /\ NoRestartPanes
  /\ pc = "idle"
  /\ reported = NoEvent
  /\ toggle_pending = FALSE
  /\ is_open = FALSE
  /\ open = FALSE
  /\ storage = None
  /\ storage_ok = TRUE
  /\ pane_event = FALSE
  /\ scroll = [n \in Nodes |-> 0]
  /\ built = 0
  /\ calls = [k \in 0 .. MaxPanes |-> 0]
  /\ panicked = FALSE
  /\ last = [op |-> "new", arg |-> 0]
  /\ prev = [op |-> "new", arg |-> 0]

NextWidget ==
  \/ \E f \in {None} \cup {Some(g) : g \in Flavors} : ListItem_set_flavor(f)
  \/ \E b \in BOOLEAN : ListItem_set_is_active(b)
  \/ \E f \in Flavors : Badge_set_flavor(f)
  \/ \E b \in BOOLEAN : Badge_set_pill(b)
  \/ \E v \in U8Args : Progress_set_value(v)
  \/ \E f \in Flavors : Progress_set_flavor(f)
  \/ \E b \in BOOLEAN : Progress_set_striped(b)
  \/ \E b \in BOOLEAN : Progress_set_animated(b)
  \/ \E t \in Texts : Toast_set_title(t)
  \/ \E t \in Texts : Toast_set_body(t)
  \/ \E f \in Flavors : Toast_set_flavor(f)
  \/ Toast_show
  \/ Toast_hide
  \/ Toast_close_click
  \/ Toast_step
  \/ \E t \in Texts : Modal_set_title(t)
  \/ \E b \in Texts : Modal_set_body(b)
  \/ Modal_show
  \/ Modal_hide
  \/ \E target \in {"close", "backdrop"} : Modal_click(target)
  \/ Modal_step
  \/ Stream_yield
  \/ Stream_end
  \/ Widget_step_call
  \/ Widget_step
  \/ Widget_step_pending
  \/ Widget_step_drop
  \/ \E id \in 1 .. MaxItems : PaneRetain_click(id)
  \/ PaneRetain_step_call
  \/ TimerElapses
  \/ PaneRetain_step_drop
  \/ PaneRetain_step

SpecWidget == InitWidget /\ [][NextWidget]_vars

\* ---- the gallery items
\* The gallery items that own an item container or a button and no pane
\* container.
GalleryItemNew ==
  /\ \/ ListLibrary_default
     \/ ButtonGroupLibrary_default
     \/ /\ ButtonLibrary_default
        /\ items = << >>
        /\ dom = << >>
        /\ pending = {}
        /\ active = {}
        /\ created = 0
  /\ NoPanes
  /\ parent = [n \in Nodes |-> None]
  /\ style = [n \in Nodes |-> NoStyle]

InitGallery ==
  /\ GalleryItemNew
  /\ NoRestartPanes
  /\ pc = "idle"
  /\ reported = NoEvent
  /\ toggle_pending = FALSE
  /\ is_open = FALSE
  /\ open = FALSE
  /\ storage = None
  /\ storage_ok = TRUE
  /\ pane_event = FALSE
  /\ scroll = [n \in Nodes |-> 0]
  /\ built = 0
  /\ calls = [k \in 0 .. MaxPanes |-> 0]
  /\ panicked = FALSE
  /\ last = [op |-> "new", arg |-> 0]
  /\ prev = [op |-> "new", arg |-> 0]

NextGallery ==
  \/ \E id \in 1 .. InitialLabels + MaxAdded : ListLibrary_click(id)
  \/ \E b \in {"add", "remove"} : ListLibrary_button_click(b)
  \/ ListLibrary_step_call
  \/ ListLibrary_step_drop
  \/ ListLibrary_step
  \/ \E id \in 1 .. InitialLabels + MaxButtons :
       ButtonGroupLibrary_subject_click(id)
  \/ \E c \in 1 .. 4 + MaxButtons : ButtonGroupLibrary_control_click(c)
  \/ ButtonGroupLibrary_step_call
  \/ ButtonGroupLibrary_step_drop
  \/ ButtonGroupLibrary_step
  \/ \E target \in {"button", "primary", "warning"} :
       ButtonLibrary_click(target)
  \/ ButtonLibrary_step

SpecGallery == InitGallery /\ [][NextGallery]_vars

\* ------------------------------------------------------------------ properties
IsPanes(m) == container = "Panes" /\ mode = m
IsRestart == container = "RestartPanes"

\* The content handed to a Panes container: the default pane and the panes added.
ContentNodes == {default_pane} \cup { panes[k] : k \in 1 .. Len(panes) }
\* The slot wrappers of a Retain container.
AllSlots ==
  { default_slot[k] : k \in 1 .. Len(default_slot) }
    \cup { slots[k] : k \in 1 .. Len(slots) }
VisibleSlots == { s \in AllSlots : style[s]["display"] # "none" }
WrapperChildren == { n \in Nodes : parent[n] = Some(Wrapper) }

\* The last call was select with an index of an added pane.
SelectedInRange == last.op = "select" /\ last.arg < Len(panes)

\* C1: in a Replace-mode Panes container at most one content subtree (the
\* default pane or one added pane) is attached to the container element, in
\* every state reached by add_pane and select calls.
C1_ReplaceAtMostOneAttached ==
  IsPanes("Replace") =>
    /\ Cardinality({ n \in ContentNodes : InDocument(n) }) <= 1
    /\ Cardinality(WrapperChildren) <= 1

\* Two panes were selected one after the other in Replace mode.
C1_Witness ==
  /\ IsPanes("Replace")
  /\ prev = [op |-> "select", arg |-> 0]
  /\ last = [op |-> "select", arg |-> 1]
  /\ index = Some(1)
  /\ Len(panes) = MaxPanes

\* C2: in a Replace-mode Panes container, after a successful select(i) exactly
\* pane i's node is a child of the container; every other added pane and the
\* default pane have no parent.
C2_ReplaceOnlySelectedAttached ==
  (IsPanes("Replace") /\ SelectedInRange) =>
    /\ WrapperChildren = { panes[last.arg + 1] }
    /\ \A n \in ContentNodes \ { panes[last.arg + 1] } : parent[n] = None

\* Panes A, B; select(1): B is attached, A and the default pane are not.
C2_Witness ==
  /\ IsPanes("Replace")
  /\ Len(panes) = 2
  /\ last = [op |-> "select", arg |-> 1]
  /\ parent[PaneNode(2)] = Some(Wrapper)
  /\ parent[PaneNode(1)] = None
  /\ parent[DefaultPaneNode] = None

\* C3: for every index i of an added pane, select(i) followed immediately by
\* get_pane() returns pane i (Replace and Retain, whatever was selected
\* before).
C3_SelectThenGetPane ==
  (container = "Panes" /\ SelectedInRange) =>
    Panes_get_pane = panes[last.arg + 1]

\* Retain mode: pane 1 was selected, then pane 2, and get_pane is pane 2.
C3_Witness ==
  /\ IsPanes("Retain")
  /\ prev = [op |-> "select", arg |-> 0]
  /\ last = [op |-> "select", arg |-> 1]
  /\ Panes_get_pane = PaneNode(2)

\* The default slot and every item slot hang under the wrapper, each pane
\* under its own slot.
RetainAllAttached ==
  /\ Len(slots) = Len(panes)
  /\ parent[DefaultSlotNode] = Some(Wrapper)
  /\ parent[default_pane] = Some(DefaultSlotNode)
  /\ \A k \in 1 .. Len(slots) :
       /\ parent[slots[k]] = Some(Wrapper)
       /\ parent[panes[k]] = Some(slots[k])

\* C4: in a Retain-mode Panes container the default slot and the slot of every
\* added pane are attached to the container from their creation on; add_pane
\* attaches exactly the new slot (with its pane), and select attaches or
\* detaches no node.
C4_RetainSlotsStayAttached ==
  /\ IsPanes("Retain") => RetainAllAttached
  /\ [][IsPanes("Retain") =>
          /\ RetainAllAttached'
          /\ last'.op = "select" => parent' = parent
          /\ last'.op = "add_pane" =>
               /\ Len(slots') = Len(slots) + 1
               /\ \A n \in Nodes \ {slots'[Len(slots')], panes'[Len(panes')]} :
                    parent'[n] = parent[n]
               /\ parent[slots'[Len(slots')]] = None
       ]_vars

\* Retain mode with every pane added and a pane selected after another one.
C4_Witness ==
  /\ IsPanes("Retain")
  /\ Len(slots) = MaxPanes
  /\ prev.op = "select"
  /\ last.op = "select"
  /\ prev.arg < Len(panes)
  /\ last.arg < Len(panes)
  /\ prev.arg # last.arg
  /\ \A k \in 1 .. Len(slots) : parent[slots[k]] = Some(Wrapper)

\* C5: in a Retain-mode Panes container exactly one slot among the default
\* slot and the item slots is visible after every add_pane and select call;
\* after a successful select(i) it is the slot of pane i.
C5_RetainExactlyOneVisible ==
  IsPanes("Retain") =>
    /\ Cardinality(VisibleSlots) = 1
    /\ SelectedInRange => VisibleSlots = { slots[last.arg + 1] }

\* Retain mode: select(2) after select(0) left only slot 3 visible.
C5_Witness ==
  /\ IsPanes("Retain")
  /\ prev = [op |-> "select", arg |-> 0]
  /\ last = [op |-> "select", arg |-> 2]
  /\ VisibleSlots = { SlotNode(3) }

\* C6: in a Retain-mode Panes container the scroll offset of a pane changes
\* only when that pane is on screen and is scrolled: no select call changes
\* any offset, so an offset set on a pane is still there after selecting
\* other panes and selecting it again.
C6_RetainScrollPreserved ==
  [][IsPanes("Retain") =>
       \A n \in Nodes :
         scroll'[n] # scroll[n] => (last'.op = "scroll" /\ Rendered(n))
    ]_vars

\* Three panes under Retain; pane 0 scrolled to 150; select(1); select(0):
\* the offset of pane 0 is still 150.
C6_Witness ==
  /\ IsPanes("Retain")
  /\ Len(panes) = 3
  /\ prev = [op |-> "select", arg |-> 1]
  /\ last = [op |-> "select", arg |-> 0]
  /\ index = Some(0)
  /\ scroll[PaneNode(1)] = 150

\* The effect of a selection change to index i in RestartPanes.
RestartedAt(i) ==
  /\ built' = built + 1
  /\ calls' = [calls EXCEPT ![i] = @ + 1]
  /\ r_index' = Some(i)
  /\ r_pane'.id \notin 0 .. built
  /\ r_pane'.factory = Some(i)
  /\ r_pane'.state = 0
  /\ WrapperChildren' = { InstanceNode(r_pane'.id) }
  /\ parent'[InstanceNode(r_pane.id)] = None

\* C7: in RestartPanes every selection change to index i invokes the factory
\* of index i exactly once (and no other factory), makes the freshly built
\* instance the current pane and the only attached content, and detaches the
\* previous instance; the instance current after the change carries no state
\* of an earlier instance. Steps that do not change the selection invoke no
\* factory.
C7_RestartFreshInstance ==
  /\ IsRestart => WrapperChildren = { InstanceNode(r_pane.id) }
  /\ [][IsRestart =>
          /\ (/\ last'.op = "select"
              /\ last'.arg < Len(r_panes)
              /\ Some(last'.arg) # r_index) => RestartedAt(last'.arg)
          /\ r_index' # r_index => RestartedAt(r_index'[1])
          /\ r_index' = r_index => (calls' = calls /\ built' = built)
       ]_vars

\* Index 0 was left and selected again: its factory ran twice and the current
\* instance has no state.
C7_Witness ==
  /\ IsRestart
  /\ last = [op |-> "select", arg |-> 0]
  /\ prev.op = "select"
  /\ prev.arg # 0
  /\ r_index = Some(0)
  /\ calls[0] = 2
  /\ r_pane.state = 0
  /\ r_pane.id = built

\* The state a select call may change.
SelectFrame ==
  << index, child, slots, panes, r_index, r_child, r_pane, r_panes, built,
     calls, parent, style, scroll, panicked >>

\* C8: select(i) with i the selected index changes nothing: in Panes the
\* selected index, the attached nodes and the slot styles stay as they are; in
\* RestartPanes no factory is invoked and the current instance is kept with
\* its state.
C8_ReselectIsNoOp ==
  [][(/\ last'.op = "select"
      /\ \/ container = "Panes" /\ Some(last'.arg) = index
         \/ IsRestart /\ Some(last'.arg) = r_index)
       => UNCHANGED SelectFrame
    ]_vars

\* RestartPanes: the selected index was selected twice more and the instance
\* still has the state it accumulated.
C8_Witness ==
  /\ IsRestart
  /\ last.op = "select"
  /\ prev = last
  /\ r_index = Some(last.arg)
  /\ r_pane.state > 0

\* C9: select(i) with i >= the number of added panes changes nothing, from
\* Unselected and from Selected(j): selected index, attached content, slot
\* styles and the result of get_pane stay as they are, no factory is invoked
\* and nothing panics.
C9_OutOfRangeSelectIsNoOp ==
  [][(/\ last'.op = "select"
      /\ \/ container = "Panes" /\ last'.arg >= Len(panes)
         \/ IsRestart /\ last'.arg >= Len(r_panes))
       => /\ UNCHANGED SelectFrame
          /\ Panes_get_pane' = Panes_get_pane
          /\ RestartPanes_get_pane' = RestartPanes_get_pane
          /\ ~panicked'
    ]_vars

\* Retain mode, pane 0 selected, then select(len): still pane 0.
C9_Witness ==
  /\ IsPanes("Retain")
  /\ Len(panes) >= 1
  /\ prev = [op |-> "select", arg |-> 0]
  /\ last = [op |-> "select", arg |-> Len(panes)]
  /\ index = Some(0)
  /\ ~panicked

\* C10: the first RestartPanes::add_pane selects index 0 (its factory runs
\* once and the instance is attached); every later one leaves selected index
\* and current instance alone and invokes no factory. Panes::add_pane never
\* changes the selected index, which is None until the first select of an
\* added pane.
C10_AddPaneAutoSelect ==
  /\ last.op = "new" => (index = None /\ r_index = None)
  /\ [][/\ (IsRestart /\ last'.op = "add_pane") =>
             IF Len(r_panes) = 0
               THEN /\ r_index' = Some(0)
                    /\ built' = built + 1
                    /\ calls' = [calls EXCEPT ![0] = 1]
                    /\ r_pane' = Fresh(built + 1, 0)
                    /\ WrapperChildren' = { InstanceNode(r_pane'.id) }
               ELSE UNCHANGED << r_index, r_pane, r_child, built, calls,
                                 parent >>
        /\ (container = "Panes" /\ last'.op = "add_pane") => index' = index
        /\ (container = "Panes" /\ index = None /\ index' # None) =>
             (last'.op = "select" /\ last'.arg < Len(panes))
       ]_vars

\* RestartPanes: index 1 is selected and its instance has state when a third
\* factory is added; both are still there.
C10_Witness ==
  /\ IsRestart
  /\ last = [op |-> "add_pane", arg |-> 2]
  /\ prev.op = "get_pane_mut"
  /\ r_index = Some(1)
  /\ r_pane.state = 1
  /\ r_pane.factory = Some(1)

\* C11: get_pane returns the default pane while the container is Unselected
\* and the pane at the selected index once an index is selected; in
\* RestartPanes it returns the default pane until the first factory-built
\* instance replaces it, and from then on the instance built for the selected
\* index.
C11_GetPaneIsActiveOrDefault ==
  /\ container = "Panes" =>
       /\ index = None => Panes_get_pane = default_pane
       /\ index # None =>
            /\ index[1] < Len(panes)
            /\ Panes_get_pane = panes[index[1] + 1]
            /\ Panes_get_pane # default_pane
  /\ IsRestart =>
       /\ built = 0 <=> r_index = None
       /\ r_index = None =>
            /\ RestartPanes_get_pane.id = 0
            /\ RestartPanes_get_pane.factory = None
       /\ r_index # None =>
            /\ RestartPanes_get_pane.factory = r_index
            /\ RestartPanes_get_pane.id = built

\* Replace mode: the last of the panes is selected and a pane was added since.
C11_Witness ==
  /\ IsPanes("Replace")
  /\ Len(panes) = 3
  /\ index = Some(1)
  /\ last = [op |-> "add_pane", arg |-> 2]
  /\ Panes_get_pane = PaneNode(2)

\* ------------------------------------------------------------------ component properties
IsItemContainer == container \in ItemContainers
ItemSet == {items[j] : j \in 1 .. Len(items)}
\* A step() of an item container resolves in this step.
StepResolves == IsItemContainer /\ last'.op = "step"

\* C12: every step() resolution of a List, TabList or ButtonGroup, and every
\* resolution of a Dropdown that is not the toggle signal, reports exactly one
\* index in 0 .. N-1 whose item had a click pending; that click is consumed,
\* the other pending clicks stay, and a click becomes pending only by a new
\* click, so the item is not reported again unless it is clicked again.
C12_StepExclusive ==
  [][ /\ StepResolves =>
           /\ container # "Dropdown" => reported'.kind = "item"
           /\ reported'.kind = "item" =>
                /\ reported'.index \in 0 .. Len(items) - 1
                /\ reported'.item = items[reported'.index + 1]
                /\ reported'.item \in pending
                /\ pending' = pending \ {reported'.item}
                /\ items' = items
      /\ last'.op # "click" => pending' \subseteq pending
    ]_vars

C12_Witness ==
  /\ container = "List"
  /\ Len(items) = 3
  /\ last = [op |-> "step", arg |-> 0]
  /\ reported = [kind |-> "item", index |-> 0, item |-> items[1]]
  /\ pending = {items[2], items[3]}

\* What a component owns besides its event buffers: item lists, DOM
\* attachment, active flags, cell values, pane selection, stored index.
ComponentState ==
  << items, dom, active, created, is_open, open, storage, panesVars,
     restartVars, parent, style, scroll, built, calls >>

\* C13: a step that leaves a step() future pending (the call itself, or an
\* event of the environment arriving while it waits) and a step that drops
\* the pending future change no component state; state changes only in a
\* step in which the future resolves or while no step() is in progress.
C13_PendingStepMutatesNothing ==
  [][ (pc' = "waiting" \/ last'.op = "drop") => UNCHANGED ComponentState ]_vars

C13_Witness ==
  /\ container = "TabList"
  /\ last.op = "drop"
  /\ pc = "idle"
  /\ Len(items) = 2
  /\ active = {items[1]}
  /\ pending = {items[2]}

\* C14: whenever the host loop waits in step(), everything the last list
\* click caused is complete: exactly the clicked item is active, the right
\* column shows a pane built by the factory of that index, and localStorage
\* holds that index.
C14_HandlerCompleteBeforeNextWait ==
  (container = "Library" /\ pc = "waiting" /\ reported.kind = "item") =>
    /\ ~panicked
    /\ reported.index < Len(items)
    /\ reported.item = items[reported.index + 1]
    /\ active = {reported.item}
    /\ r_index = Some(reported.index)
    /\ r_pane.factory = r_index
    /\ r_child = InstanceNode(r_pane.id)
    /\ parent[r_child] = Some(Wrapper)
    /\ storage = Some(reported.index)

C14_Witness ==
  /\ container = "Library"
  /\ pc = "waiting"
  /\ last.op = "step_call"
  /\ reported = [kind |-> "item", index |-> 2, item |-> 3]
  /\ storage = Some(2)
  /\ r_index = Some(2)
  /\ active = {3}

\* C15: remove(k) with k < len keeps the items before k at their index and
\* moves every item after k down by one; the removed item is in the list no
\* more and has no pending click; a step() resolution reports the current
\* index of an item that is in the list and had a click pending, so a click
\* on the former item j is reported as j-1 (j > k) or j (j < k) and the
\* removed item is never reported.
C15_RemoveShiftsIndices ==
  [][ /\ (IsItemContainer /\ last'.op = "remove" /\ last'.arg < Len(items)) =>
           LET k == last'.arg
           IN
           /\ Len(items') = Len(items) - 1
           /\ \A j \in 0 .. Len(items) - 1 :
                /\ j < k => items'[j + 1] = items[j + 1]
                /\ j > k => items'[j] = items[j + 1]
           /\ \A j \in 1 .. Len(items') : items'[j] # items[k + 1]
           /\ items[k + 1] \notin pending'
      /\ (StepResolves /\ reported'.kind = "item") =>
           /\ reported'.index < Len(items)
           /\ reported'.item = items[reported'.index + 1]
           /\ reported'.item \in pending
      /\ IsItemContainer =>
           pending' \subseteq {items'[j] : j \in 1 .. Len(items')}
    ]_vars

C15_Witness ==
  /\ container = "List"
  /\ items = << 1, 3 >>
  /\ last = [op |-> "step", arg |-> 1]
  /\ reported = [kind |-> "item", index |-> 1, item |-> 3]

\* C16: TabList::insert(index, item) with index <= len puts the new tab at
\* position index in the item sequence and in the child order of the ul, and
\* shifts every later tab by one in both.
C16_InsertAtIndexInItemsAndDom ==
  [][ (container = "TabList" /\ last'.op = "insert" /\ last'.arg <= Len(items)) =>
        LET k == last'.arg
            new == created'
        IN
        /\ Len(items') = Len(items) + 1
        /\ Len(dom') = Len(dom) + 1
        /\ items'[k + 1] = new
        /\ dom'[k + 1] = new
        /\ \A j \in 0 .. Len(items) - 1 :
             /\ j < k => items'[j + 1] = items[j + 1] /\ dom'[j + 1] = dom[j + 1]
             /\ j >= k => items'[j + 2] = items[j + 1] /\ dom'[j + 2] = dom[j + 1]
    ]_vars

\* C17: a Dropdown step() resolution is the toggle signal exactly when a
\* toggle click was buffered, and consumes it; otherwise it is ItemClicked
\* with the index of an item whose click was buffered; no resolution changes
\* is_open, the open cell or the menu children.
C17_DropdownStepReports ==
  [][ (container = "Dropdown" /\ last'.op = "step") =>
        /\ toggle_pending =>
             /\ reported'.kind = "toggle"
             /\ ~toggle_pending'
             /\ pending' = pending
        /\ ~toggle_pending =>
             /\ reported'.kind = "item"
             /\ reported'.index \in 0 .. Len(items) - 1
             /\ items[reported'.index + 1] \in pending
             /\ \A i \in 0 .. Len(items) - 1 :
                  pending = {items[i + 1]} => reported'.index = i
        /\ is_open' = is_open
        /\ open' = open
        /\ dom' = dom
        /\ items' = items
    ]_vars

C17_Witness ==
  /\ container = "Dropdown"
  /\ Len(items) = 3
  /\ is_open
  /\ open
  /\ last = [op |-> "step", arg |-> 2]
  /\ reported = [kind |-> "item", index |-> 2, item |-> items[3]]

C19_OutOfRangeSelectIsNoOp ==
  [][ /\ (container = "TabList" /\ last'.op = "select" /\ last'.arg >= Len(items)) =>
           /\ active' = active
           /\ ~panicked'
      /\ (/\ container = "Library"
          /\ last'.op = "main"
          /\ storage_ok
          /\ storage # None
          /\ last'.arg >= Len(items)) =>
           /\ active' = active
           /\ r_index' = r_index
           /\ r_pane' = r_pane
           /\ ~panicked'
    ]_vars

\* C20: once main() has entered the step loop, no Library::step() resolution
\* panics: the loop is never aborted.
C20_LoopNeverAborts ==
  (container = "Library" /\ pc # "constructing") => ~panicked

\* The event a step() resolution must report: a function of the child order,
\* of the set of buffered clicks and, in a Dropdown, of the buffered toggle
\* click, and of nothing else.
Winner ==
  IF container = "Dropdown" /\ toggle_pending
    THEN [kind |-> "toggle", index |-> 0, item |-> 0]
    ELSE LET i == CHOOSE i \in Ready : \A j \in Ready : i <= j
         IN [kind |-> "item", index |-> i, item |-> items[i + 1]]
\* Number of events the listeners of the component hold.
Buffered(p, t) == Cardinality(p) + (IF t THEN 1 ELSE 0)

C23_InsertPlacesOrAppends ==
  [][ (/\ container \in {"List", "ButtonGroup"}
       /\ last'.op = "insert"
       /\ dom = items) =>
        LET k == last'.arg
            new == created'
        IN
        /\ ~panicked'
        /\ k > Len(items) =>
             /\ items' = Append(items, new)
             /\ dom' = Append(dom, new)
        /\ k < Len(items) =>
             /\ Len(items') = Len(items) + 1
             /\ items'[k + 1] = new
             /\ \A j \in 0 .. Len(items) - 1 :
                  /\ j < k => items'[j + 1] = items[j + 1]
                  /\ j >= k => items'[j + 2] = items[j + 1]
             /\ dom' = items'
    ]_vars

\* C30: in a List, ButtonGroup or Dropdown the child order of the element
\* equals the order of the items vector.
C30_DomOrderEqualsItems ==
  container \in {"List", "ButtonGroup", "Dropdown"} => dom = items

\* C27: a click outside an open Dropdown dismisses the menu: after the click
\* the menu is closed, or a listener of the component holds an event that
\* step() reports to the owner.
C27_ClickOutsideDismisses ==
  [][ (container = "Dropdown" /\ last'.op = "outside_click" /\ open) =>
        \/ ~open'
        \/ toggle_pending'
        \/ pending' # {}
    ]_vars

\* ------------------------------------------------- properties of the widgets
\* C21: after every setter call the bound DOM attributes equal the projection
\* of the current cell value, with no stale value from an earlier state: the
\* li class is "list-group-item" or "list-group-item-<flavor>", followed by
\* " active" iff is_active; the badge class names the current flavor and ends
\* in " rounded-pill" iff pill; the Progress attributes show the current
\* value, flavor, striped and animated.
C21_BoundAttributesFollowCell ==
  /\ container = "ListItem" =>
       attrs.class =
         (IF cell.flavor = None
            THEN "list-group-item"
            ELSE "list-group-item-" \o class_name(cell.flavor[1]))
           \o (IF cell.is_active THEN " active" ELSE "")
  /\ container = "Badge" =>
       attrs.class =
         "badge text-bg-" \o class_name(cell.flavor)
           \o (IF cell.pill THEN " rounded-pill" ELSE "")
  /\ container = "Progress" =>
       /\ attrs.aria_valuenow = ToString(cell.value)
       /\ attrs.width = ToString(cell.value) \o "%"
       /\ attrs.class =
            "progress-bar bg-" \o class_name(cell.flavor)
              \o (IF cell.striped THEN " progress-bar-striped" ELSE "")
              \o (IF cell.animated THEN " progress-bar-animated" ELSE "")

\* A list item that was given a flavor and then made active shows both.
C21_Witness ==
  /\ container = "ListItem"
  /\ last.op = "set_is_active"
  /\ cell = [flavor |-> Some("Danger"), is_active |-> TRUE]
  /\ attrs.class = "list-group-item-danger active"

\* C24: the Progress value is always within 0..=100: Progress::new and
\* set_value clamp any u8 above 100 to 100, so aria-valuenow and the bar width
\* never show more than 100.
C24_ProgressValueClamped ==
  container = "Progress" =>
    /\ cell.value \in 0 .. 100
    /\ \E n \in 0 .. 100 :
         /\ attrs.aria_valuenow = ToString(n)
         /\ attrs.width = ToString(n) \o "%"

\* set_value(255) left the bar at 100%.
C24_Witness ==
  /\ container = "Progress"
  /\ last = [op |-> "set_value", arg |-> 255]
  /\ cell.value = 100
  /\ attrs.aria_valuenow = "100"
  /\ attrs.width = "100%"

\* C25: a Toast never auto-dismisses: its visible flag (and the class bound to
\* it) changes only through show() and hide(); a step() that resolves with
\* Closed, set_title, set_body and set_flavor leave visibility unchanged.
C25_ToastNeverAutoDismisses ==
  [][ container = "Toast" =>
        /\ (cell'.visible # cell.visible \/ attrs'.class # attrs.class)
             => last'.op \in {"show", "hide"}
        /\ last'.op \in {"step", "set_title", "set_body", "set_flavor"}
             => /\ cell'.visible = cell.visible
                /\ attrs'.class = attrs.class
    ]_vars

\* The close button of a shown toast was clicked, step() reported Closed and
\* the toast is still shown.
C25_Witness ==
  /\ container = "Toast"
  /\ last.op = "step"
  /\ reported.kind = "closed"
  /\ cell.visible
  /\ attrs.class = "toast show"

\* C26: Modal::step resolves with Closed exactly when the close button or the
\* backdrop is clicked: it can resolve whenever one of the two listeners holds
\* a click, it resolves only then, and it takes exactly one click; the
\* visibility of the modal changes only through show() and hide(), never by
\* step() itself.
C26_ModalStepOnlyOnClick ==
  [][ container = "Modal" =>
        /\ signals # {} => ENABLED Modal_step
        /\ last'.op = "step" =>
             /\ signals \cap {"close", "backdrop"} # {}
             /\ reported'.kind = "closed"
             /\ signals' \subseteq signals
             /\ Cardinality(signals') + 1 = Cardinality(signals)
             /\ cell' = cell
             /\ attrs' = attrs
        /\ cell'.visible # cell.visible => last'.op \in {"show", "hide"}
    ]_vars

\* The modal was shown and clicked, step() reported Closed and the modal is
\* still displayed.
C26_Witness ==
  /\ container = "Modal"
  /\ last.op = "step"
  /\ reported.kind = "closed"
  /\ cell.visible
  /\ attrs.modal_display = "block"
  /\ attrs.backdrop_display = "block"

\* C28: in PaneRetainLibraryItem every step() resolution won by the timer
\* increments seconds by exactly one and updates the timer text, whichever pane
\* is selected, and leaves the selection alone; a resolution won by a tab click
\* selects that tab and its pane without changing seconds or the timer text.
C28_TimerCountsWhileHidden ==
  [][ (container = "PaneRetain" /\ pc = "waiting" /\ last'.op = "step") =>
        IF "timer" \in signals
          THEN /\ cell'.seconds = cell.seconds + 1
               /\ attrs'.timer_text
                    = ToString(cell.seconds + 1) \o " seconds elapsed"
               /\ index' = index
               /\ active' = active
          ELSE /\ cell'.seconds = cell.seconds
               /\ attrs'.timer_text = attrs.timer_text
               /\ reported'.kind = "item"
               /\ index' = Some(reported'.index)
               /\ active' = {reported'.item}
    ]_vars

\* The timer has fired twice while the first pane is selected and the slot of
\* the timer pane is hidden.
C28_Witness ==
  /\ container = "PaneRetain"
  /\ last = [op |-> "step", arg |-> 0]
  /\ reported = NoEvent
  /\ index = Some(0)
  /\ style[SlotNode(3)]["display"] = "none"
  /\ cell.seconds = 2
  /\ attrs.timer_text = "2 seconds elapsed"

\* C29: Widget::step yields the next item of its stream; once the stream has
\* ended (next() has returned None), no step() resolves or panics and the
\* finished stream is not polled again.
C29_EndedStreamNeverResolves ==
  [][ container = "Widget" =>
        /\ (pc = "waiting" /\ last'.op = "step") =>
             /\ cell.queue # << >>
             /\ reported'.item = Head(cell.queue)
        /\ cell.finished =>
             /\ reported' = reported
             /\ ~panicked'
             /\ last'.op # "poll_finished"
    ]_vars

\* ------------------------------------------------ properties of the gallery
\* C31: in TabList at most one tab is active in every reachable state (after
\* any sequence of push, pop, insert, remove, select, deselect_all), and an
\* active tab is a tab of the list; after select(i) with i < len exactly tab i
\* is active; push returns the index of the new tab, and the push that makes
\* the list non-empty makes tab 0 active.
C31_AtMostOneActiveTab ==
  /\ [](container = "TabList" =>
          /\ Cardinality(active) <= 1
          /\ active \subseteq ItemSet)
  /\ [][ (container = "TabList" /\ ~panicked') =>
          /\ (last'.op = "select" /\ last'.arg < Len(items))
               => active' = {items[last'.arg + 1]}
          /\ last'.op = "push" =>
               /\ last'.arg = Len(items)
               /\ Len(items') = Len(items) + 1
               /\ items'[last'.arg + 1] = created'
               /\ items = << >> => active' = {items'[1]}
      ]_vars

\* With three tabs, select(1) made the second one the active tab.
C31_Witness ==
  /\ container = "TabList"
  /\ last = [op |-> "select", arg |-> 1]
  /\ Len(items) = 3
  /\ active = {items[2]}

\* C32: in the Library the number of list items always equals the number of
\* pane factories, and whenever the right column has selected index i, list
\* item i is the one and only active list item, from construction onward.
C32_ListAndPaneAgree ==
  container = "Library" =>
    /\ Len(items) = Len(r_panes)
    /\ r_index # None =>
         /\ r_index[1] < Len(items)
         /\ active = {items[r_index[1] + 1]}

\* C33: in ListLibraryItem, after any sequence of item clicks, Add and Remove
\* actions, selected is None or less than the list length, at most one list
\* item is active and it is the item at the selected index, and the Remove
\* action never panics.
C33_SelectedInRangeAndActive ==
  container = "ListLibraryItem" =>
    /\ cell.selected = None \/ cell.selected[1] < Len(items)
    /\ Cardinality(active) <= 1
    /\ active =
         IF cell.selected # None /\ cell.selected[1] < Len(items)
           THEN {items[cell.selected[1] + 1]}
           ELSE {}
    /\ ~panicked

\* An item was added, the last item selected and removed: nothing is selected
\* or active, and an earlier item is no longer in the list.
C33_Witness ==
  /\ container = "ListLibraryItem"
  /\ last.op = "step"
  /\ reported.kind = "remove"
  /\ cell = [selected |-> None, count |-> 4]
  /\ items = << 1, 2, 3 >>
  /\ dom = << 1, 2, 3 >>
  /\ active = {}
  /\ ~panicked

\* C34: the unreachable!() branches are never reached: the controls group of
\* ButtonGroupLibraryItem always holds exactly 4 buttons, so its step only
\* ever sees control indices 0..=3, and ButtonLibraryItem::step never
\* observes the end of the flavor_changes stream; neither step panics.
C34_UnreachableNeverReached ==
  /\ container = "ButtonGroupLibraryItem" =>
       /\ Len(cell.controls) = 4
       /\ reported.kind = "control" => reported.index \in 0 .. 3
       /\ ~panicked
  /\ container = "ButtonLibraryItem" => ~panicked

\* The last control button ("Toggle vertical", index 3) was clicked and
\* handled after a button had been added.
C34_Witness ==
  /\ container = "ButtonGroupLibraryItem"
  /\ last.op = "step"
  /\ reported = [kind |-> "control", index |-> 3, item |-> 0]
  /\ cell.is_vertical
  /\ cell.count = 4
  /\ Len(items) = 4
  /\ ~panicked

====
